---- MODULE Spec2Model ----
(***************************************************************************)
(* A model of the hyperpulse trade-ingestion and aggregation core:         *)
(*   core/websocket_client.py  (feed callback, recent-trade stores, the    *)
(*                              stats queue, the connection monitor)       *)
(*   core/data_processor.py    (windowed aggregation, cumulative ledger,   *)
(*                              persistence, eviction)                     *)
(*                                                                         *)
(* Time is counted in milliseconds since the epoch: time.time(),           *)
(* datetime.now() and a trade's timestamp are all integers of that unit.   *)
(* Prices, sizes and notionals are naturals (the code uses floats; no      *)
(* rounding is modelled).                                                  *)
(***************************************************************************)
EXTENDS Integers, Sequences, FiniteSets, TLC

VARIABLES
    now,                    \* the wall clock (time.time() / datetime.now()), ms
    trade_data,             \* websocket_client.trade_data: deque(maxlen)
    trade_data_by_coin,     \* websocket_client.trade_data_by_coin: coin -> deque(maxlen)
    cumulative_stats_queue, \* websocket_client.cumulative_stats_queue: queue.Queue(maxsize)
    connection_status,      \* websocket_client.connection_status (dict)
    cumulative_user_stats,  \* data_processor.cumulative_user_stats: coin -> user -> counters
    stats_file,             \* the file at STATS_FILE: absent, complete or partly written
    ingested,               \* history variable: every trade_info on_message built, in order
    queue_drops,            \* history variable: number of queue.Full warnings logged
    saved_snapshot,         \* history variable: the ledger whose completed save STATS_FILE holds
    started_at,             \* history variable: Len(ingested) when the process last started
    current_connection,     \* websocket_client.current_connection: "None" or the coin of the Info client
    current_loop,           \* websocket_client.current_loop: "None", "running" or "not_running"
    current_coin,           \* st.session_state.current_coin: "None" or a coin
    monitor_pc,             \* check_connection_status: "off" or the sleep the monitor thread is in
    monitor_wake,           \* the time at which that sleep ends
    ws_threads,             \* started start_websocket threads that have not run yet: [coin, by]
    teardowns,              \* start_websocket threads whose loop was stopped, `finally` still to run
    subscriptions,          \* coins the feed delivers for (subscriptions made by info.subscribe)
    failed_attempts,        \* history variable: the monitor's reconnect attempts that failed
                            \* since the last successful subscribe or cooldown
    user_connects,          \* history variable: presses of the connect button
    historical_data,        \* data_processor.historical_data: coin -> rows sorted by timestamp
    process_cache,          \* the cache of time_aware_cache around process_trade_data
    last_result,            \* what the last call of process_trade_data returned, and when
    queries,                \* history variable: calls of process_trade_data
    last_message,           \* history variable: the message the feed last called on_message with
    maintenance_alive,      \* whether the maintenance_worker thread is still in its loop
    close_calls,            \* history variable: calls of close_websocket() from outside
                            \* start_websocket and the monitor
    consumer_pending,       \* the trade_info update_cumulative_stats is in the middle of
    feed_pending,           \* the trade_info on_message has appended to the stores and not yet queued
    last_read,              \* what get_cumulative_user_statistics last returned to its caller
    dashboard,              \* what update_dashboard last put on the page
    is_running,             \* start_connection_monitor.is_running (False while the attribute is unset)
    monitors,               \* the check_connection_status threads of the specification that takes
                            \* start_connection_monitor in two steps: the sleep each is in
    closed_after            \* history variable: the number of connect presses before the last
                            \* call of close_websocket() from outside that closed a connection,
                            \* NoTime if there was none

(***************************************************************************)
(* Sizes.  The program's capacities (1000 trades per deque, 1000 queue     *)
(* slots) are scaled down; every other number is the program's own.        *)
(***************************************************************************)
\* maxlen of trade_data and of each trade_data_by_coin deque (1000 in the code)
DEQUE_MAXLEN == 6
\* maxsize of cumulative_stats_queue (1000 in the code)
QUEUE_SIZE == 2
\* most trades the feed delivers in one run of the ingestion specification
MaxIngest == 5
\* most trades the feed delivers in one run of the malformed-record specification
MaxMalformedTrades == 4
\* most trades the feed delivers in one run of the side specification
MaxSideTrades == 3
\* most trades the feed delivers in one run of the store specification
MaxStoreTrades == 9
\* max_users_per_coin of clean_cumulative_stats (1000 in the code)
MAX_USERS_PER_COIN == 2
\* most trades the feed delivers in one run of the ledger specification
MaxLedgerTrades == 4
\* most trades the feed delivers in one run of the order specification
MaxOrderTrades == 5
\* most trades the feed delivers in one run of the read specification
MaxReadTrades == 4
\* the session specification runs the clock for this many steps of ClockStep
MaxSessionTicks == 8
\* most calls of close_websocket() from outside in one run of the session specification
MaxCloseCalls == 2
\* the connection specification runs the clock for this many steps of ClockStep
MaxConnTicks == 30
MaxUserConnects == 2
\* the monitor-start specification runs the clock for this many steps of ClockStep
MaxMonitorTicks == 14
MaxAggTrades == 6
MaxQueries == 2

\* websocket_client.py, lines 36-39 (seconds)
RECONNECT_INTERVAL == 10
HEARTBEAT_INTERVAL == 30
MAX_RECONNECT_ATTEMPTS == 5
RECONNECT_DELAY == 5
\* data_processor.py, lines 33, 35 and 146
MAX_HISTORY_MINUTES == 30
MIN_RECORDS_THRESHOLD == 5
CACHE_SECONDS == 2

\* seconds as clock units (ms)
Seconds(n) == n * 1000
Minutes(n) == Seconds(n * 60)

\* the aggregation's variables
aggVars == <<historical_data, process_cache, last_result, queries>>

\* the variables of a caller of close_websocket, of a reader of the ledger,
\* of the feed of the malformed-record specification and of the dashboard
auxVars == <<close_calls, consumer_pending, last_read, last_message, feed_pending, dashboard,
             closed_after, is_running, monitors>>

\* the connection manager's variables
connVars == <<current_connection, current_loop, current_coin, monitor_pc, monitor_wake,
              ws_threads, teardowns, subscriptions, failed_attempts, user_connects>>

Min(a, b) == IF a <= b THEN a ELSE b
Max(a, b) == IF a >= b THEN a ELSE b

\* the last n elements of s (all of s when it is shorter)
LastN(s, n) == SubSeq(s, Max(1, Len(s) - n + 1), Len(s))

(***************************************************************************)
(* collections.deque(maxlen=DEQUE_MAXLEN).append: a full deque discards    *)
(* its oldest (leftmost) element.                                          *)
(***************************************************************************)
DequeAppendDropNewest(d, x) == IF Len(d) >= DEQUE_MAXLEN THEN d ELSE Append(d, x)

DequeAppend(d, x) ==
    IF Len(d) >= DEQUE_MAXLEN THEN Append(Tail(d), x) ELSE Append(d, x)

\* defaultdict(lambda: deque(maxlen=...)): a missing key reads as an empty deque
CoinDeque(by_coin, coin) ==
    IF coin \in DOMAIN by_coin THEN by_coin[coin] ELSE << >>

\* d[k] = v on a dict modelled as a function with a growing domain
DictSet(d, k, v) == [x \in DOMAIN d \cup {k} |-> IF x = k THEN v ELSE d[x]]

(***************************************************************************)
(* The feed's records.  px and sz arrive as text; float() accepts the      *)
(* numerals below and raises ValueError on anything else.                  *)
(***************************************************************************)
FloatText == [t \in {"0", "1", "2"} |-> IF t = "0" THEN 0 ELSE IF t = "1" THEN 1 ELSE 2]

CanFloat(t) == t \in DOMAIN FloatText

required_fields == {"side", "time", "px", "sz", "coin"}

\* on_message, lines 71-80: buyer / seller from the users list by side
Buyer(trade) ==
    LET users == IF "users" \in DOMAIN trade THEN trade.users ELSE << >>
    IN  IF users = << >> THEN "unknown"
        ELSE IF trade.side = "B" THEN users[1]
        ELSE IF Len(users) > 1 THEN users[2] ELSE "unknown"

Seller(trade) ==
    LET users == IF "users" \in DOMAIN trade THEN trade.users ELSE << >>
    IN  IF users = << >> THEN "unknown"
        ELSE IF trade.side = "B" THEN (IF Len(users) > 1 THEN users[2] ELSE "unknown")
        ELSE users[1]

\* on_message, lines 59-63 and the float() calls of lines 86-88: does the
\* record reach the appends, or is it skipped (continue / except)?
TradeAccepted(trade) ==
    /\ required_fields \subseteq DOMAIN trade
    /\ CanFloat(trade.px)
    /\ CanFloat(trade.sz)

\* on_message, lines 83-92
TradeInfo(trade) ==
    [timestamp |-> trade.time,
     side      |-> trade.side,
     price     |-> FloatText[trade.px],
     volume    |-> FloatText[trade.sz],
     total     |-> FloatText[trade.sz] * FloatText[trade.px],
     coin      |-> trade.coin,
     buyer     |-> Buyer(trade),
     seller    |-> Seller(trade)]

(***************************************************************************)
(* The state on_message works on, threaded through the records of one      *)
(* message: st = [all, by_coin, queue, log, drops].                        *)
(***************************************************************************)
HandleTradeStoreOnlyIfQueued(st, trade) ==
    IF ~TradeAccepted(trade) THEN st
    ELSE LET info == TradeInfo(trade)
             full == Len(st.queue) >= QUEUE_SIZE
         IN  IF full
             THEN [st EXCEPT !.log = Append(@, info), !.drops = @ + 1]
             ELSE [st EXCEPT
                     !.all = DequeAppend(@, info),
                     !.by_coin = DictSet(@, info.coin,
                                         DequeAppend(CoinDeque(@, info.coin), info)),
                     !.queue = Append(@, info),
                     !.log = Append(@, info)]

\* on_message, lines 58-108: one record of the message
HandleTrade(st, trade) ==
    IF ~TradeAccepted(trade) THEN st
    ELSE LET info == TradeInfo(trade)
             full == Len(st.queue) >= QUEUE_SIZE
         IN  [st EXCEPT
                 !.all = DequeAppend(@, info),
                 !.by_coin = DictSet(@, info.coin,
                                     DequeAppend(CoinDeque(@, info.coin), info)),
                 !.queue = IF full THEN @ ELSE Append(@, info),
                 !.log = Append(@, info),
                 !.drops = IF full THEN @ + 1 ELSE @]

HandleTradeAppendGlobalOnly(st, info) ==
    [st EXCEPT !.all = DequeAppend(@, info), !.log = Append(@, info)]

\* on_message, lines 95-96: the appends of a record's trade_info to the stores
HandleTradeAppend(st, info) ==
    [st EXCEPT
        !.all = DequeAppend(@, info),
        !.by_coin = DictSet(@, info.coin, DequeAppend(CoinDeque(@, info.coin), info)),
        !.log = Append(@, info)]

\* on_message, lines 99-102: put_nowait, or the queue.Full warning
HandleTradePush(st, info) ==
    LET full == Len(st.queue) >= QUEUE_SIZE
    IN  [st EXCEPT !.queue = IF full THEN @ ELSE Append(@, info),
                   !.drops = IF full THEN @ + 1 ELSE @]

RECURSIVE HandleTradesAbortOnMalformed(_, _)
HandleTradesAbortOnMalformed(st, trades) ==
    IF trades = << >> \/ ~TradeAccepted(Head(trades)) THEN st
    ELSE HandleTradesAbortOnMalformed(HandleTrade(st, Head(trades)), Tail(trades))

\* on_message, lines 57-108: the loop over the records of the message
RECURSIVE HandleTrades(_, _)
HandleTrades(st, trades) ==
    IF trades = << >> THEN st
    ELSE HandleTrades(HandleTrade(st, Head(trades)), Tail(trades))

\* on_message(message): message = [is_dict_with_data_list, data]
on_message(message) ==
    /\ connection_status' = [connection_status EXCEPT !.last_message_time = now]
    /\ IF ~message.wellformed
       THEN UNCHANGED <<trade_data, trade_data_by_coin, cumulative_stats_queue,
                        ingested, queue_drops>>
       ELSE LET st == HandleTrades([all |-> trade_data, by_coin |-> trade_data_by_coin,
                                    queue |-> cumulative_stats_queue,
                                    log |-> ingested, drops |-> queue_drops],
                                   message.data)
            IN  /\ trade_data' = st.all
                /\ trade_data_by_coin' = st.by_coin
                /\ cumulative_stats_queue' = st.queue
                /\ ingested' = st.log
                /\ queue_drops' = st.drops

(***************************************************************************)
(* The cumulative ledger (data_processor.py).                              *)
(***************************************************************************)
\* Python truthiness of a str: the empty string is falsy
Truthy(str) == str # ""

NewUserStat == [buy_count |-> 0, sell_count |-> 0, buy_volume |-> 0, sell_volume |-> 0]

\* cumulative_user_stats[coin][user], created as in lines 296-297 / 303-304
StatOf(users, user) == IF user \in DOMAIN users THEN users[user] ELSE NewUserStat

\* update_cumulative_stats, lines 295-299
AddBuy(users, buyer, total) ==
    DictSet(users, buyer,
            [StatOf(users, buyer) EXCEPT !.buy_count = @ + 1, !.buy_volume = @ + total])

\* update_cumulative_stats, lines 302-306
AddSell(users, seller, total) ==
    DictSet(users, seller,
            [StatOf(users, seller) EXCEPT !.sell_count = @ + 1, !.sell_volume = @ + total])

update_cumulative_stats_fresh_coin(stats, trade_info) ==
    LET users1 == IF trade_info.side = "B" /\ Truthy(trade_info.buyer)
                  THEN AddBuy(<< >>, trade_info.buyer, trade_info.total) ELSE << >>
        users2 == IF trade_info.side = "A" /\ Truthy(trade_info.seller)
                  THEN AddSell(users1, trade_info.seller, trade_info.total) ELSE users1
    IN  DictSet(stats, trade_info.coin, users2)

\* update_cumulative_stats(trade_info) as a function of the ledger
update_cumulative_stats(stats, trade_info) ==
    LET coin   == trade_info.coin
        side   == trade_info.side
        buyer  == trade_info.buyer
        seller == trade_info.seller
        total  == trade_info.total
    IN  IF ~Truthy(coin) \/ ~Truthy(side) \/ ~(Truthy(buyer) \/ Truthy(seller))
        THEN stats
        ELSE LET users0 == IF coin \in DOMAIN stats THEN stats[coin] ELSE << >>
                 users1 == IF side = "B" /\ Truthy(buyer)
                           THEN AddBuy(users0, buyer, total) ELSE users0
                 users2 == IF side = "A" /\ Truthy(seller)
                           THEN AddSell(users1, seller, total) ELSE users1
             IN  DictSet(stats, coin, users2)

ConsumeStatsNewestFirst ==
    /\ cumulative_stats_queue # << >>
    /\ cumulative_user_stats' =
           update_cumulative_stats(cumulative_user_stats,
                                   cumulative_stats_queue[Len(cumulative_stats_queue)])
    /\ cumulative_stats_queue' =
           SubSeq(cumulative_stats_queue, 1, Len(cumulative_stats_queue) - 1)
    /\ UNCHANGED <<connVars, aggVars, auxVars, now, trade_data, trade_data_by_coin,
                   connection_status, stats_file, maintenance_alive,
                   ingested, queue_drops, saved_snapshot, started_at>>

ConsumeStatsOnceOnly ==
    /\ cumulative_stats_queue # << >>
    /\ cumulative_user_stats = << >>
    /\ cumulative_user_stats' =
           update_cumulative_stats(cumulative_user_stats, Head(cumulative_stats_queue))
    /\ cumulative_stats_queue' = Tail(cumulative_stats_queue)
    /\ UNCHANGED <<connVars, aggVars, auxVars, now, trade_data, trade_data_by_coin,
                   connection_status, stats_file, maintenance_alive,
                   ingested, queue_drops, saved_snapshot, started_at>>

\* process_cumulative_stats_queue, lines 473-482: one pass of the loop with a
\* trade in the queue (an empty queue only sleeps)
ConsumeStats ==
    /\ cumulative_stats_queue # << >>
    /\ cumulative_user_stats' =
           update_cumulative_stats(cumulative_user_stats, Head(cumulative_stats_queue))
    /\ cumulative_stats_queue' = Tail(cumulative_stats_queue)
    /\ UNCHANGED <<connVars, aggVars, auxVars, now, trade_data, trade_data_by_coin,
                   connection_status, stats_file, maintenance_alive,
                   ingested, queue_drops, saved_snapshot, started_at>>

(***************************************************************************)
(* Persistence.  json.dump writes every number as a decimal numeral and    *)
(* json.load reads the numeral back; an object is a mapping from its keys. *)
(***************************************************************************)
RECURSIVE JsonNumber(_)
JsonNumber(n) == IF n < 10 THEN <<n>> ELSE Append(JsonNumber(n \div 10), n % 10)

RECURSIVE JsonParseNumber(_)
JsonParseNumber(digits) ==
    IF Len(digits) = 1 THEN digits[1]
    ELSE 10 * JsonParseNumber(SubSeq(digits, 1, Len(digits) - 1)) + digits[Len(digits)]

JsonDumpStatCountsOnly(stat) ==
    [buy_count   |-> JsonNumber(stat.buy_count),
     sell_count  |-> JsonNumber(stat.sell_count),
     buy_volume  |-> JsonNumber(0),
     sell_volume |-> JsonNumber(0)]

JsonDumpStat(stat) ==
    [buy_count   |-> JsonNumber(stat.buy_count),
     sell_count  |-> JsonNumber(stat.sell_count),
     buy_volume  |-> JsonNumber(stat.buy_volume),
     sell_volume |-> JsonNumber(stat.sell_volume)]

JsonLoadStat(obj) ==
    [buy_count   |-> JsonParseNumber(obj.buy_count),
     sell_count  |-> JsonParseNumber(obj.sell_count),
     buy_volume  |-> JsonParseNumber(obj.buy_volume),
     sell_volume |-> JsonParseNumber(obj.sell_volume)]

\* save_cumulative_stats, lines 345-356: the text written to STATS_FILE
JsonDump(stats) ==
    [coin \in DOMAIN stats |->
        [user \in DOMAIN stats[coin] |-> JsonDumpStat(stats[coin][user])]]

\* load_cumulative_stats, lines 370-374: merge the loaded mapping into stats
MergeLoaded(stats, loaded) ==
    [coin \in DOMAIN stats \cup DOMAIN loaded |->
        IF coin \notin DOMAIN loaded THEN stats[coin]
        ELSE LET old == IF coin \in DOMAIN stats THEN stats[coin] ELSE << >>
             IN  [user \in DOMAIN old \cup DOMAIN loaded[coin] |->
                     IF user \in DOMAIN loaded[coin]
                     THEN JsonLoadStat(loaded[coin][user])
                     ELSE old[user]]]

NoFile == [state |-> "absent", text |-> << >>]
PartialFile == [state |-> "partial", text |-> << >>]

\* load_cumulative_stats(): a missing file and an unparsable one leave stats as is
load_cumulative_stats(stats, file) ==
    IF file.state = "complete" THEN MergeLoaded(stats, file.text) ELSE stats

\* What save_cumulative_stats can leave at STATS_FILE: the new text, or, when
\* makedirs / open / json.dump raises, the old file or a partly written one.
SaveOutcomes(stats) ==
    { [state |-> "complete", text |-> JsonDump(stats)], stats_file, PartialFile }

\* a save of stats that left `file` failed: it did not write the whole text
SaveFailed(file, stats) == file # [state |-> "complete", text |-> JsonDump(stats)]

SaveRaisesOnFailure(file, stats) == SaveFailed(file, stats)

\* save_cumulative_stats, lines 343 and 358-359: the body is inside
\* try / except Exception, which logs the error; nothing reaches the caller
SaveRaises(file, stats) == FALSE

\* the ledger whose snapshot the file holds once a save of stats left `file`
SnapshotAfterSave(file, stats) ==
    IF file = stats_file THEN saved_snapshot
    ELSE IF file.state = "complete" THEN stats
    ELSE << >>

\* save_cumulative_stats(): maintenance_worker's periodic save and the atexit hook
SaveStats ==
    /\ maintenance_alive
    /\ \E file \in SaveOutcomes(cumulative_user_stats) :
          /\ stats_file' = file
          /\ saved_snapshot' = SnapshotAfterSave(file, cumulative_user_stats)
          /\ maintenance_alive' = ~SaveRaises(file, cumulative_user_stats)
    /\ UNCHANGED <<connVars, aggVars, auxVars, now, trade_data, trade_data_by_coin, cumulative_stats_queue,
                   connection_status, cumulative_user_stats, ingested, queue_drops,
                   started_at>>

(***************************************************************************)
(* Eviction.  clean_cumulative_stats sorts a coin's users by               *)
(* (total_volume, total_count), descending, and keeps the first            *)
(* max_users_per_coin rows.  Users with equal keys stay in the order the   *)
(* dict listed them, which the model leaves open: any order of equal keys  *)
(* is a possible outcome.                                                  *)
(***************************************************************************)
total_volume(stat) == stat.buy_volume + stat.sell_volume
total_count(stat) == stat.buy_count + stat.sell_count

\* row a sorts strictly before row b under sort_values(..., ascending=False)
SortsBeforeAscending(a, b) ==
    \/ total_volume(a) < total_volume(b)
    \/ total_volume(a) = total_volume(b) /\ total_count(a) < total_count(b)

SortsBefore(a, b) ==
    \/ total_volume(a) > total_volume(b)
    \/ total_volume(a) = total_volume(b) /\ total_count(a) > total_count(b)

\* the sets df.head(n)['user'] can be: take a first row n times
RECURSIVE HeadUsers(_, _, _)
HeadUsers(users, left, n) ==
    IF n = 0 \/ left = {} THEN { {} }
    ELSE UNION { { {u} \cup rest : rest \in HeadUsers(users, left \ {u}, n - 1) } :
                 u \in { v \in left : \A w \in left : ~SortsBefore(users[w], users[v]) } }

\* lines 394-416 for one coin: the user maps the coin can be left with
CleanCoin(users) ==
    IF Cardinality(DOMAIN users) > MAX_USERS_PER_COIN
    THEN { [u \in active_users |-> users[u]] :
             active_users \in HeadUsers(users, DOMAIN users, MAX_USERS_PER_COIN) }
    ELSE { users }

\* clean_cumulative_stats(): maintenance_worker's periodic clean; saves when
\* anything was deleted
CleanStats ==
    /\ maintenance_alive
    /\ \E cleaned \in [DOMAIN cumulative_user_stats ->
                          UNION { CleanCoin(cumulative_user_stats[c]) :
                                    c \in DOMAIN cumulative_user_stats }] :
          /\ \A c \in DOMAIN cumulative_user_stats :
                cleaned[c] \in CleanCoin(cumulative_user_stats[c])
          /\ cumulative_user_stats' = cleaned
          /\ IF cleaned # cumulative_user_stats
             THEN \E file \in SaveOutcomes(cleaned) :
                     /\ stats_file' = file
                     /\ saved_snapshot' = SnapshotAfterSave(file, cleaned)
                     /\ maintenance_alive' = ~SaveRaises(file, cleaned)
             ELSE UNCHANGED <<stats_file, saved_snapshot, maintenance_alive>>
    /\ UNCHANGED <<connVars, aggVars, auxVars, now, trade_data, trade_data_by_coin, cumulative_stats_queue,
                   connection_status, ingested, queue_drops, started_at>>

(***************************************************************************)
(* Process start.  Importing data_processor runs                           *)
(* start_cumulative_stats_processor(), which loads STATS_FILE into the     *)
(* empty ledger; everything held in memory starts afresh.  The model       *)
(* follows the process over one restart that comes after some ingestion.   *)
(***************************************************************************)
\* process_trade_data's `return None, None, None, None`
NoData == [kind |-> "None"]

\* last_result before process_trade_data was ever called
NoCall == [time_interval |-> 0, coin |-> "None", at |-> 0, fresh |-> FALSE, result |-> NoData]

NoTime == -1

\* last_message before on_message was ever called
NoMessage == [wellformed |-> FALSE, data |-> << >>]

\* consumer_pending while update_cumulative_stats is not running, and
\* feed_pending while on_message is not between its appends and its put_nowait
NoPending == [kind |-> "None"]

\* last_read before get_cumulative_user_statistics was ever called
NoRead == [coin |-> "None", rows |-> << >>, aliased |-> FALSE]

\* dashboard before update_dashboard ever ran
NoPage == [shown |-> "None", raised |-> FALSE]

InitialConnectionStatus ==
    [connected |-> FALSE, last_message_time |-> now, last_error |-> "None",
     error_time |-> NoTime, reconnect_count |-> 0]

StartProcess ==
    /\ started_at = 0
    /\ cumulative_user_stats' = load_cumulative_stats(<< >>, stats_file)
    /\ trade_data' = << >>
    /\ trade_data_by_coin' = << >>
    /\ cumulative_stats_queue' = << >>
    /\ connection_status' = InitialConnectionStatus
    /\ started_at' = Len(ingested)
    /\ queue_drops' = 0
    /\ current_connection' = "None"
    /\ current_loop' = "None"
    /\ current_coin' = "None"
    /\ monitor_pc' = "off"
    /\ monitor_wake' = 0
    /\ ws_threads' = << >>
    /\ teardowns' = 0
    /\ subscriptions' = {}
    /\ failed_attempts' = 0
    /\ user_connects' = 0
    /\ historical_data' = << >>
    /\ process_cache' = << >>
    /\ last_result' = NoCall
    /\ queries' = 0
    /\ last_message' = NoMessage
    /\ feed_pending' = NoPending
    /\ maintenance_alive' = TRUE
    /\ close_calls' = 0
    /\ consumer_pending' = NoPending
    /\ last_read' = NoRead
    /\ dashboard' = NoPage
    /\ closed_after' = NoTime
    /\ is_running' = FALSE
    /\ monitors' = << >>
    /\ UNCHANGED <<now, stats_file, saved_snapshot, ingested>>

vars == <<now, trade_data, trade_data_by_coin, cumulative_stats_queue, connection_status,
          cumulative_user_stats, stats_file, maintenance_alive, ingested,
          queue_drops, saved_snapshot,
          started_at, connVars, aggVars, auxVars>>

Init ==
    /\ now = 0
    /\ trade_data = << >>
    /\ trade_data_by_coin = << >>
    /\ cumulative_stats_queue = << >>
    /\ connection_status = [connected |-> FALSE, last_message_time |-> 0,
                            last_error |-> "None", error_time |-> NoTime,
                            reconnect_count |-> 0]
    /\ cumulative_user_stats = << >>
    /\ stats_file = NoFile
    /\ ingested = << >>
    /\ queue_drops = 0
    /\ saved_snapshot = << >>
    /\ started_at = 0
    /\ current_connection = "None"
    /\ current_loop = "None"
    /\ current_coin = "None"
    /\ monitor_pc = "off"
    /\ monitor_wake = 0
    /\ ws_threads = << >>
    /\ teardowns = 0
    /\ subscriptions = {}
    /\ failed_attempts = 0
    /\ user_connects = 0
    /\ historical_data = << >>
    /\ process_cache = << >>
    /\ last_result = NoCall
    /\ queries = 0
    /\ last_message = NoMessage
    /\ feed_pending = NoPending
    /\ maintenance_alive = TRUE
    /\ close_calls = 0
    /\ consumer_pending = NoPending
    /\ last_read = NoRead
    /\ dashboard = NoPage
    /\ closed_after = NoTime
    /\ is_running = FALSE
    /\ monitors = << >>

(***************************************************************************)
(* The feed.  info.subscribe(subscription, on_message) makes the feed's    *)
(* thread call on_message with each message it receives.                   *)
(***************************************************************************)
RawTrade(coin, side, time, px, sz, users) ==
    [coin |-> coin, side |-> side, time |-> time, px |-> px, sz |-> sz, users |-> users]

\* the records the ingestion specification's feed sends: three well-formed
\* ones, one without px, one whose px is not a number
IngestTrades ==
    { RawTrade("BTC", "B", 1, "1", "1", <<"u1", "u2">>),
      RawTrade("ETH", "A", 2, "2", "1", <<"u2">>),
      RawTrade("BTC", "A", 1, "1", "2", << >>),
      [coin |-> "BTC", side |-> "B", time |-> 3, sz |-> "1", users |-> <<"u1">>],
      RawTrade("BTC", "B", 3, "abc", "1", <<"u1">>) }

SeqsUpTo(S, n) == UNION { [1..k -> S] : k \in 0..n }

IngestMessages ==
    { [wellformed |-> TRUE, data |-> d] : d \in SeqsUpTo(IngestTrades, 2) }
        \cup { [wellformed |-> FALSE, data |-> << >>] }

\* the number of records of a message that on_message ingests
AcceptedCount(message) ==
    IF message.wellformed
    THEN Cardinality({ i \in DOMAIN message.data : TradeAccepted(message.data[i]) })
    ELSE 0

FeedMessage ==
    /\ \E message \in IngestMessages :
          /\ Len(ingested) + AcceptedCount(message) <= MaxIngest
          /\ on_message(message)
    /\ UNCHANGED <<connVars, aggVars, auxVars, now, cumulative_user_stats, stats_file,
                   maintenance_alive, saved_snapshot, started_at>>

Next ==
    \/ FeedMessage
    \/ ConsumeStats

\* ingestion and the ledger's consumer
Spec == Init /\ [][Next]_vars

\* ingestion and the consumer again, the feed's last message remembered
FeedMalformed ==
    /\ \E message \in IngestMessages :
          /\ Len(ingested) + AcceptedCount(message) <= MaxMalformedTrades
          /\ on_message(message)
          /\ last_message' = message
    /\ UNCHANGED <<connVars, aggVars, dashboard, closed_after, is_running, monitors, close_calls, consumer_pending, last_read, feed_pending, now,
                   cumulative_user_stats, stats_file, maintenance_alive, saved_snapshot,
                   started_at>>

NextMalformed ==
    \/ FeedMalformed
    \/ ConsumeStats

SpecMalformed == Init /\ [][NextMalformed]_vars

\* ingestion of records as an upstream may send them: with a side that is
\* neither B nor A, and with a notional of the upstream's own
SideTrades ==
    { RawTrade("BTC", "B", 1, "2", "1", <<"u1", "u2">>),
      RawTrade("BTC", "X", 2, "1", "1", <<"u1", "u2">>),
      [coin |-> "BTC", side |-> "A", time |-> 3, px |-> "2", sz |-> "2",
       users |-> <<"u2", "u1">>, total |-> 0] }

FeedSides ==
    /\ \E message \in { [wellformed |-> TRUE, data |-> d] : d \in SeqsUpTo(SideTrades, 2) } :
          /\ Len(ingested) + AcceptedCount(message) <= MaxSideTrades
          /\ AcceptedCount(message) > 0
          /\ on_message(message)
    /\ UNCHANGED <<connVars, aggVars, auxVars, now, cumulative_user_stats, stats_file,
                   maintenance_alive, saved_snapshot, started_at>>

NextSides ==
    \/ FeedSides
    \/ ConsumeStats

SpecSides == Init /\ [][NextSides]_vars

\* ingestion alone, over longer runs: the consumer never touches the stores
FeedStore ==
    /\ \E message \in IngestMessages :
          /\ Len(ingested) + AcceptedCount(message) <= MaxStoreTrades
          /\ on_message(message)
    /\ UNCHANGED <<connVars, aggVars, auxVars, now, cumulative_user_stats, stats_file,
                   maintenance_alive, saved_snapshot, started_at>>

NextStore == FeedStore

SpecStore == Init /\ [][NextStore]_vars

(***************************************************************************)
(* The ledger specification: single-trade messages of three users on two   *)
(* instruments, the consumer, the                                          *)
(* maintenance worker's save and clean, and process restarts.              *)
(***************************************************************************)
LedgerTrades ==
    { RawTrade("BTC", "B", 1, "1", "2", <<"u1", "u2">>),
      RawTrade("BTC", "A", 1, "1", "1", <<"u2", "u1">>),
      RawTrade("BTC", "A", 1, "1", "1", <<"u3">>),
      RawTrade("ETH", "B", 1, "1", "1", <<"u3", "u1">>) }

FeedLedger ==
    /\ Len(ingested) < MaxLedgerTrades
    /\ \E trade \in LedgerTrades : on_message([wellformed |-> TRUE, data |-> <<trade>>])
    /\ UNCHANGED <<connVars, aggVars, auxVars, now, cumulative_user_stats, stats_file,
                   maintenance_alive, saved_snapshot, started_at>>

NextLedger ==
    \/ FeedLedger
    \/ ConsumeStats
    \/ SaveStats
    \/ CleanStats
    \/ StartProcess

SpecLedger == Init /\ [][NextLedger]_vars

(***************************************************************************)
(* The connection manager (websocket_client.py).  The monitor thread       *)
(* (check_connection_status) is followed from sleep to sleep; a            *)
(* start_websocket thread runs from its start to run_forever() (or to its  *)
(* failure) in one step, and its `finally` block in a later one.           *)
(***************************************************************************)
dataVars == <<trade_data, trade_data_by_coin, cumulative_stats_queue, cumulative_user_stats,
              stats_file, maintenance_alive, ingested, queue_drops,
              saved_snapshot, started_at, aggVars, auxVars>>

\* the clock advances in steps of the shortest sleep
ClockStep == Seconds(RECONNECT_DELAY)

CloseEffectUnguarded ==
    [connection |-> "None",
     loop       |-> "not_running",
     connected  |-> FALSE,
     teardowns  |-> teardowns + 1]

\* close_websocket(), lines 169-175: what it leaves in current_connection,
\* current_loop, connection_status["connected"], and the threads it stops
CloseEffect ==
    IF current_connection # "None"
    THEN [connection |-> "None",
          loop       |-> "not_running",
          connected  |-> FALSE,
          teardowns  |-> IF current_loop = "running" THEN teardowns + 1 ELSE teardowns]
    ELSE [connection |-> current_connection,
          loop       |-> current_loop,
          connected  |-> connection_status.connected,
          teardowns  |-> teardowns]

\* connect_websocket(), lines 259-271, for the coin chosen in the UI
connect_websocket(coin) ==
    /\ ws_threads = << >>
    /\ user_connects < MaxUserConnects
    /\ user_connects' = user_connects + 1
    /\ current_coin' = coin
    /\ ws_threads' = Append(ws_threads, [coin |-> coin, by |-> "user"])
    /\ UNCHANGED <<now, dataVars, connection_status, current_connection, current_loop,
                   monitor_pc, monitor_wake, teardowns, subscriptions, failed_attempts>>

\* connection_status.update(...) of lines 230-235
StatusAfterConnect ==
    [connection_status EXCEPT !.connected = TRUE, !.last_message_time = now,
                              !.last_error = "None", !.error_time = NoTime]

\* lines 240-250: the except and finally blocks after a failed subscribe
StatusAfterFailure ==
    [connection_status EXCEPT !.connected = FALSE, !.last_error = "error",
                              !.error_time = now]

\* start_websocket(coin), lines 202-238, in the oldest started thread: close the
\* previous connection, start the monitor if it is not running, subscribe (which
\* succeeds or raises), and enter run_forever()
start_websocket ==
    /\ ws_threads # << >>
    /\ \E subscribed \in BOOLEAN :
          LET thread == Head(ws_threads)
          IN  /\ teardowns' = CloseEffect.teardowns
              /\ IF subscribed
                 THEN /\ current_connection' = thread.coin
                      /\ current_loop' = "running"
                      /\ connection_status' = StatusAfterConnect
                      /\ subscriptions' = subscriptions \cup {thread.coin}
                      /\ failed_attempts' = 0
                 ELSE /\ current_connection' = CloseEffect.connection
                      /\ current_loop' = "not_running"
                      /\ connection_status' = StatusAfterFailure
                      /\ subscriptions' = subscriptions
                      /\ failed_attempts' = IF thread.by = "monitor"
                                            THEN failed_attempts + 1 ELSE failed_attempts
    /\ ws_threads' = Tail(ws_threads)
    /\ IF monitor_pc = "off"
       THEN monitor_pc' = "interval" /\ monitor_wake' = now
       ELSE UNCHANGED <<monitor_pc, monitor_wake>>
    /\ UNCHANGED <<now, dataVars, current_coin, user_connects>>

\* start_websocket, lines 247-250: the `finally` block of a thread whose loop
\* close_websocket stopped
start_websocket_finally ==
    /\ teardowns > 0
    /\ teardowns' = teardowns - 1
    /\ connection_status' = [connection_status EXCEPT !.connected = FALSE]
    /\ UNCHANGED <<now, dataVars, current_connection, current_loop, current_coin,
                   monitor_pc, monitor_wake, ws_threads, subscriptions, failed_attempts, user_connects>>

HeartbeatMissedAtInterval ==
    now - connection_status.last_message_time >= Seconds(HEARTBEAT_INTERVAL)

\* check_connection_status, line 122: current_time - last_message_time > HEARTBEAT_INTERVAL
HeartbeatMissed ==
    now - connection_status.last_message_time > Seconds(HEARTBEAT_INTERVAL)

\* check_connection_status, lines 119-131 and 146-151: the monitor wakes from
\* sleep(RECONNECT_INTERVAL), marks a silent connection as lost, and either
\* starts a reconnect (up to its sleep(RECONNECT_DELAY)), starts the cooldown
\* (its sleep(RECONNECT_INTERVAL * 2)), or goes back to sleep
MonitorCheck ==
    /\ monitor_pc = "interval"
    /\ now >= monitor_wake
    /\ LET stale == /\ connection_status.connected
                    /\ HeartbeatMissed
           connected == connection_status.connected /\ ~stale
       IN  IF ~connected /\ current_coin # "None"
           THEN IF connection_status.reconnect_count < MAX_RECONNECT_ATTEMPTS
                THEN /\ current_connection' = CloseEffect.connection
                     /\ current_loop' = CloseEffect.loop
                     /\ teardowns' = CloseEffect.teardowns
                     /\ connection_status' = [connection_status EXCEPT !.connected = FALSE]
                     /\ monitor_pc' = "reconnect_delay"
                     /\ monitor_wake' = now + Seconds(RECONNECT_DELAY)
                ELSE /\ connection_status' = [connection_status EXCEPT !.connected = FALSE]
                     /\ monitor_pc' = "cooldown"
                     /\ monitor_wake' = now + Seconds(RECONNECT_INTERVAL * 2)
                     /\ UNCHANGED <<current_connection, current_loop, teardowns>>
           ELSE /\ connection_status' = [connection_status EXCEPT !.connected = connected]
                /\ monitor_pc' = "interval"
                /\ monitor_wake' = now + Seconds(RECONNECT_INTERVAL)
                /\ UNCHANGED <<current_connection, current_loop, teardowns>>
    /\ UNCHANGED <<now, dataVars, current_coin, ws_threads, subscriptions, failed_attempts, user_connects>>

\* check_connection_status, lines 134-151: after sleep(RECONNECT_DELAY) the
\* monitor starts a start_websocket thread and counts the attempt
MonitorReconnect ==
    /\ monitor_pc = "reconnect_delay"
    /\ now >= monitor_wake
    /\ ws_threads' = Append(ws_threads, [coin |-> current_coin, by |-> "monitor"])
    /\ connection_status' = [connection_status EXCEPT !.reconnect_count = @ + 1]
    /\ monitor_pc' = "interval"
    /\ monitor_wake' = now + Seconds(RECONNECT_INTERVAL)
    /\ UNCHANGED <<now, dataVars, current_connection, current_loop, current_coin,
                   teardowns, subscriptions, failed_attempts, user_connects>>

\* check_connection_status, lines 148-151: the cooldown ends, the counter is reset
MonitorCooldownEnd ==
    /\ monitor_pc = "cooldown"
    /\ now >= monitor_wake
    /\ connection_status' = [connection_status EXCEPT !.reconnect_count = 0]
    /\ failed_attempts' = 0
    /\ monitor_pc' = "interval"
    /\ monitor_wake' = now + Seconds(RECONNECT_INTERVAL)
    /\ UNCHANGED <<now, dataVars, current_connection, current_loop, current_coin,
                   ws_threads, teardowns, subscriptions, user_connects>>

\* a message without trades arrives on a live subscription
FeedKeepAlive ==
    /\ subscriptions # {}
    /\ connection_status.last_message_time # now
    /\ on_message([wellformed |-> FALSE, data |-> << >>])
    /\ UNCHANGED <<now, cumulative_user_stats, stats_file, maintenance_alive, saved_snapshot, started_at,
                   connVars, aggVars, auxVars>>

\* time passes: started threads have run and the monitor is not overdue
Tick ==
    /\ now < MaxConnTicks * ClockStep
    /\ ws_threads = << >>
    /\ monitor_pc = "off" \/ now < monitor_wake
    /\ now' = now + ClockStep
    /\ UNCHANGED <<dataVars, connection_status, connVars>>

ConnCoins == {"BTC"}

UserConnect == \E coin \in ConnCoins : connect_websocket(coin)

NextConn ==
    \/ UserConnect
    \/ start_websocket
    \/ start_websocket_finally
    \/ MonitorCheck
    \/ MonitorReconnect
    \/ MonitorCooldownEnd
    \/ FeedKeepAlive
    \/ Tick

SpecConn == Init /\ [][NextConn]_vars

(***************************************************************************)
(* The order of the stores, the queue and the ledger.  The feed's thread   *)
(* and the consumer's thread interleave between any two statements of      *)
(* on_message, so this specification takes a record's appends to the       *)
(* stores (lines 95-96) and its put_nowait (line 100) as two steps.  Every *)
(* record carries its own time, the number of its arrival.                 *)
(***************************************************************************)
OrderTrades ==
    { RawTrade("BTC", "B", Len(ingested) + 1, "1", "1", <<"u1", "u2">>),
      RawTrade("ETH", "A", Len(ingested) + 1, "2", "1", <<"u2", "u1">>) }

\* on_message up to line 96, for a message of one record
FeedAppend ==
    /\ feed_pending = NoPending
    /\ Len(ingested) < MaxOrderTrades
    /\ \E trade \in OrderTrades :
          LET st == HandleTradeAppend([all |-> trade_data, by_coin |-> trade_data_by_coin,
                                       queue |-> cumulative_stats_queue,
                                       log |-> ingested, drops |-> queue_drops],
                                      TradeInfo(trade))
          IN  /\ TradeAccepted(trade)
              /\ trade_data' = st.all
              /\ trade_data_by_coin' = st.by_coin
              /\ ingested' = st.log
              /\ feed_pending' = [kind |-> "trade", trade_info |-> TradeInfo(trade)]
    /\ connection_status' = [connection_status EXCEPT !.last_message_time = now]
    /\ UNCHANGED <<connVars, aggVars, dashboard, closed_after, is_running, monitors, close_calls, consumer_pending, last_read, last_message,
                   now, cumulative_stats_queue, queue_drops, cumulative_user_stats,
                   stats_file, maintenance_alive, saved_snapshot, started_at>>

\* on_message, lines 98-102, for the record whose appends were made
FeedPush ==
    /\ feed_pending # NoPending
    /\ LET st == HandleTradePush([all |-> trade_data, by_coin |-> trade_data_by_coin,
                                  queue |-> cumulative_stats_queue,
                                  log |-> ingested, drops |-> queue_drops],
                                 feed_pending.trade_info)
       IN  /\ cumulative_stats_queue' = st.queue
           /\ queue_drops' = st.drops
    /\ feed_pending' = NoPending
    /\ UNCHANGED <<connVars, aggVars, dashboard, closed_after, is_running, monitors, close_calls, consumer_pending, last_read, last_message,
                   now, trade_data, trade_data_by_coin, ingested, connection_status,
                   cumulative_user_stats, stats_file, maintenance_alive, saved_snapshot,
                   started_at>>

NextOrder ==
    \/ FeedAppend
    \/ FeedPush
    \/ ConsumeStats

SpecOrder == Init /\ [][NextOrder]_vars

\* the same when the consumer's thread and the feed's thread keep being scheduled
SpecDrain ==
    /\ SpecOrder
    /\ WF_vars(ConsumeStats)
    /\ WF_vars(FeedPush)

(***************************************************************************)
(* Readers of the ledger.  The consumer thread and the dashboard's thread  *)
(* share cumulative_user_stats without a lock, so a read can fall between  *)
(* two statements of update_cumulative_stats: the model splits the update  *)
(* after its `count += 1` (lines 298 / 305).                               *)
(***************************************************************************)
\* update_cumulative_stats up to and including `..._count'] += 1`
update_cumulative_stats_count(stats, trade_info) ==
    LET coin   == trade_info.coin
        side   == trade_info.side
        buyer  == trade_info.buyer
        seller == trade_info.seller
    IN  IF ~Truthy(coin) \/ ~Truthy(side) \/ ~(Truthy(buyer) \/ Truthy(seller))
        THEN stats
        ELSE LET users0 == IF coin \in DOMAIN stats THEN stats[coin] ELSE << >>
                 users1 == IF side = "B" /\ Truthy(buyer)
                           THEN DictSet(users0, buyer,
                                        [StatOf(users0, buyer) EXCEPT !.buy_count = @ + 1])
                           ELSE users0
                 users2 == IF side = "A" /\ Truthy(seller)
                           THEN DictSet(users1, seller,
                                        [StatOf(users1, seller) EXCEPT !.sell_count = @ + 1])
                           ELSE users1
             IN  DictSet(stats, coin, users2)

\* the rest of update_cumulative_stats: `..._volume'] += total`
update_cumulative_stats_volume(stats, trade_info) ==
    LET coin   == trade_info.coin
        side   == trade_info.side
        buyer  == trade_info.buyer
        seller == trade_info.seller
        total  == trade_info.total
    IN  IF ~Truthy(coin) \/ ~Truthy(side) \/ ~(Truthy(buyer) \/ Truthy(seller))
        THEN stats
        ELSE LET users0 == stats[coin]
                 users1 == IF side = "B" /\ Truthy(buyer)
                           THEN DictSet(users0, buyer,
                                        [users0[buyer] EXCEPT !.buy_volume = @ + total])
                           ELSE users0
                 users2 == IF side = "A" /\ Truthy(seller)
                           THEN DictSet(users1, seller,
                                        [users1[seller] EXCEPT !.sell_volume = @ + total])
                           ELSE users1
             IN  DictSet(stats, coin, users2)

\* process_cumulative_stats_queue, lines 476-479: queue.get() and the first
\* part of update_cumulative_stats
ConsumeCount ==
    /\ consumer_pending = NoPending
    /\ cumulative_stats_queue # << >>
    /\ cumulative_user_stats' =
           update_cumulative_stats_count(cumulative_user_stats, Head(cumulative_stats_queue))
    /\ cumulative_stats_queue' = Tail(cumulative_stats_queue)
    /\ consumer_pending' = [kind |-> "trade", trade_info |-> Head(cumulative_stats_queue)]
    /\ UNCHANGED <<connVars, aggVars, dashboard, closed_after, is_running, monitors, close_calls, last_read, last_message, feed_pending, now, trade_data,
                   trade_data_by_coin, connection_status, stats_file, maintenance_alive,
                   ingested, queue_drops, saved_snapshot, started_at>>

\* the second part of update_cumulative_stats, and task_done()
ConsumeVolume ==
    /\ consumer_pending # NoPending
    /\ cumulative_user_stats' =
           update_cumulative_stats_volume(cumulative_user_stats, consumer_pending.trade_info)
    /\ consumer_pending' = NoPending
    /\ UNCHANGED <<connVars, aggVars, dashboard, closed_after, is_running, monitors, close_calls, last_read, last_message, feed_pending, now, trade_data,
                   trade_data_by_coin, cumulative_stats_queue, connection_status, stats_file,
                   maintenance_alive, ingested, queue_drops, saved_snapshot, started_at>>

get_cumulative_user_statistics_by_reference(stats, coin) ==
    IF coin \notin DOMAIN stats \/ stats[coin] = << >>
    THEN [coin |-> coin, rows |-> << >>, aliased |-> FALSE]
    ELSE [coin |-> coin,
          rows |-> [user \in DOMAIN stats[coin] |->
                      [user        |-> user,
                       buy_count   |-> stats[coin][user].buy_count,
                       sell_count  |-> stats[coin][user].sell_count,
                       buy_volume  |-> stats[coin][user].buy_volume,
                       sell_volume |-> stats[coin][user].sell_volume]],
          aliased |-> TRUE]

\* get_cumulative_user_statistics(coin), lines 320-338: the DataFrame returned,
\* as its rows by user.  Each row is a dict made anew from the numbers of the
\* ledger's entry, so no row is an alias of the ledger's own dict.
get_cumulative_user_statistics(stats, coin) ==
    IF coin \notin DOMAIN stats \/ stats[coin] = << >>
    THEN [coin |-> coin, rows |-> << >>, aliased |-> FALSE]
    ELSE [coin |-> coin,
          rows |-> [user \in DOMAIN stats[coin] |->
                      [user        |-> user,
                       buy_count   |-> stats[coin][user].buy_count,
                       sell_count  |-> stats[coin][user].sell_count,
                       buy_volume  |-> stats[coin][user].buy_volume,
                       sell_volume |-> stats[coin][user].sell_volume]],
          aliased |-> FALSE]

\* what the holder of a returned frame reads in it: rows that are aliases of
\* the ledger's dicts show the ledger's numbers of the moment
RowsSeen(result) ==
    IF result.aliased
    THEN [user \in DOMAIN result.rows |->
            IF result.coin \in DOMAIN cumulative_user_stats
               /\ user \in DOMAIN cumulative_user_stats[result.coin]
            THEN get_cumulative_user_statistics(cumulative_user_stats, result.coin).rows[user]
            ELSE result.rows[user]]
    ELSE result.rows

ReadCoins == {"BTC", "ETH"}

\* streamlit_ui.py line 283: the dashboard reads the ledger of a coin
ReadStats ==
    /\ \E coin \in ReadCoins :
          last_read' = get_cumulative_user_statistics(cumulative_user_stats, coin)
    /\ UNCHANGED <<connVars, aggVars, dashboard, closed_after, is_running, monitors, close_calls, consumer_pending, last_message, feed_pending, now,
                   trade_data, trade_data_by_coin, cumulative_stats_queue, connection_status,
                   cumulative_user_stats, stats_file, maintenance_alive, ingested,
                   queue_drops, saved_snapshot, started_at>>

ClearedRow(user) ==
    [user |-> user, buy_count |-> 0, sell_count |-> 0, buy_volume |-> 0, sell_volume |-> 0]

\* the holder of the returned frame overwrites one of its rows; a row that is
\* an alias of the ledger's dict is overwritten in the ledger too
MutateResult ==
    /\ \E user \in DOMAIN last_read.rows :
          /\ RowsSeen(last_read)[user] # ClearedRow(user)
          /\ last_read' = [last_read EXCEPT !.rows[user] = ClearedRow(user)]
          /\ IF last_read.aliased
                /\ last_read.coin \in DOMAIN cumulative_user_stats
                /\ user \in DOMAIN cumulative_user_stats[last_read.coin]
             THEN cumulative_user_stats' =
                     [cumulative_user_stats EXCEPT ![last_read.coin][user] = NewUserStat]
             ELSE UNCHANGED cumulative_user_stats
    /\ UNCHANGED <<connVars, aggVars, dashboard, closed_after, is_running, monitors, close_calls, consumer_pending, last_message, feed_pending, now,
                   trade_data, trade_data_by_coin, cumulative_stats_queue, connection_status,
                   stats_file, maintenance_alive, ingested, queue_drops, saved_snapshot,
                   started_at>>

\* the records of the read specification's feed: BTC trades of non-zero notional
ReadTrades ==
    { RawTrade("BTC", "B", 1, "2", "1", <<"u1", "u2">>),
      RawTrade("BTC", "A", 1, "1", "1", <<"u2", "u1">>) }

FeedRead ==
    /\ Len(ingested) < MaxReadTrades
    /\ \E trade \in ReadTrades : on_message([wellformed |-> TRUE, data |-> <<trade>>])
    /\ UNCHANGED <<connVars, aggVars, auxVars, now, cumulative_user_stats, stats_file,
                   maintenance_alive, saved_snapshot, started_at>>

NextRead ==
    \/ FeedRead
    \/ ConsumeCount
    \/ ConsumeVolume
    \/ ReadStats
    \/ MutateResult

SpecRead == Init /\ [][NextRead]_vars

(***************************************************************************)
(* A session: the user connects to one of two instruments, and             *)
(* close_websocket() is also called on its own (an unsubscribe).  The      *)
(* monitor and the maintenance worker run beside it.  The clock stops      *)
(* before the monitor can have used up its reconnect attempts.             *)
(***************************************************************************)
\* close_websocket(), lines 165-178, called on its own
close_websocket ==
    /\ close_calls < MaxCloseCalls
    /\ close_calls' = close_calls + 1
    /\ closed_after' = IF current_connection # "None" THEN user_connects ELSE closed_after
    /\ current_connection' = CloseEffect.connection
    /\ current_loop' = CloseEffect.loop
    /\ teardowns' = CloseEffect.teardowns
    /\ connection_status' = [connection_status EXCEPT !.connected = CloseEffect.connected]
    /\ UNCHANGED <<now, trade_data, trade_data_by_coin, cumulative_stats_queue,
                   cumulative_user_stats, stats_file, maintenance_alive, ingested,
                   queue_drops, saved_snapshot, started_at, aggVars, consumer_pending,
                   last_read, last_message, feed_pending, dashboard, is_running, monitors,
                   current_coin, monitor_pc, monitor_wake, ws_threads, subscriptions, failed_attempts, user_connects>>

SessionCoins == {"BTC", "ETH"}

UserConnectSession == \E coin \in SessionCoins : connect_websocket(coin)

SessionTick ==
    /\ now < MaxSessionTicks * ClockStep
    /\ Tick

NextSession ==
    \/ UserConnectSession
    \/ start_websocket
    \/ start_websocket_finally
    \/ close_websocket
    \/ MonitorCheck
    \/ MonitorReconnect
    \/ FeedKeepAlive
    \/ SessionTick
    \/ SaveStats

SpecSession == Init /\ [][NextSession]_vars

\* the same session when every thread that can run does run in the end
SpecShutdown ==
    /\ SpecSession
    /\ WF_vars(start_websocket)
    /\ WF_vars(start_websocket_finally)
    /\ WF_vars(MonitorCheck)
    /\ WF_vars(MonitorReconnect)
    /\ WF_vars(SessionTick)
    /\ WF_vars(SaveStats)

(***************************************************************************)
(* The start of the monitor.  start_connection_monitor() reads its         *)
(* is_running attribute (line 159), starts the thread (line 161) and sets  *)
(* the attribute (line 162); Thread.start() waits for the new thread, so   *)
(* other threads run between the read and the write.  This specification   *)
(* takes start_websocket in two steps, up to the read and from it on, lets *)
(* the user press connect while a start_websocket thread is still on its   *)
(* way, and keeps every check_connection_status thread in `monitors`.      *)
(***************************************************************************)
\* connect_websocket(), lines 259-271, pressed at any moment
connect_websocket_at_any_moment(coin) ==
    /\ user_connects < MaxUserConnects
    /\ user_connects' = user_connects + 1
    /\ current_coin' = coin
    /\ ws_threads' = Append(ws_threads, [coin |-> coin, by |-> "user"])
    /\ UNCHANGED <<now, dataVars, connection_status, current_connection, current_loop,
                   monitor_pc, monitor_wake, teardowns, subscriptions, failed_attempts>>

PressConnect == \E coin \in ConnCoins : connect_websocket_at_any_moment(coin)

WithoutThread(threads, i) ==
    SubSeq(threads, 1, i - 1) \o SubSeq(threads, i + 1, Len(threads))

\* start_websocket(coin), lines 202-207 and 159, in a started thread: close
\* the previous connection and read start_connection_monitor.is_running
start_websocket_enter ==
    /\ \E i \in DOMAIN ws_threads :
          /\ "saw_running" \notin DOMAIN ws_threads[i]
          /\ ws_threads' = [ws_threads EXCEPT
                               ![i] = [coin |-> @.coin, by |-> @.by, saw_running |-> is_running]]
    /\ current_connection' = CloseEffect.connection
    /\ current_loop' = CloseEffect.loop
    /\ teardowns' = CloseEffect.teardowns
    /\ connection_status' = [connection_status EXCEPT !.connected = CloseEffect.connected]
    /\ UNCHANGED <<now, dataVars, current_coin, monitor_pc, monitor_wake, subscriptions,
                   failed_attempts, user_connects>>

\* start_websocket(coin), lines 160-162 and 209-250, in a thread that has read
\* is_running: start a monitor if the attribute was not set, set it, subscribe
\* (which succeeds or raises), and enter run_forever()
start_websocket_subscribe ==
    /\ \E i \in DOMAIN ws_threads, subscribed \in BOOLEAN :
          LET thread == ws_threads[i]
          IN  /\ "saw_running" \in DOMAIN thread
              /\ IF thread.saw_running
                 THEN UNCHANGED <<monitors, is_running>>
                 ELSE /\ monitors' = Append(monitors, [pc |-> "interval", wake |-> now])
                      /\ is_running' = TRUE
              /\ IF subscribed
                 THEN /\ current_connection' = thread.coin
                      /\ current_loop' = "running"
                      /\ connection_status' = StatusAfterConnect
                      /\ subscriptions' = subscriptions \cup {thread.coin}
                      /\ failed_attempts' = 0
                 ELSE /\ current_loop' = "not_running"
                      /\ connection_status' = StatusAfterFailure
                      /\ failed_attempts' = IF thread.by = "monitor"
                                            THEN failed_attempts + 1 ELSE failed_attempts
                      /\ UNCHANGED <<current_connection, subscriptions>>
              /\ ws_threads' = WithoutThread(ws_threads, i)
    /\ UNCHANGED <<now, trade_data, trade_data_by_coin, cumulative_stats_queue,
                   cumulative_user_stats, stats_file, maintenance_alive, ingested,
                   queue_drops, saved_snapshot, started_at, aggVars, close_calls,
                   consumer_pending, last_read, last_message, feed_pending, dashboard,
                   closed_after, current_coin, monitor_pc, monitor_wake, teardowns,
                   user_connects>>

\* what the monitor steps leave alone beside the connection manager's variables
monitorsUnchanged ==
    <<now, trade_data, trade_data_by_coin, cumulative_stats_queue,
      cumulative_user_stats, stats_file, maintenance_alive, ingested,
      queue_drops, saved_snapshot, started_at, aggVars, close_calls,
      consumer_pending, last_read, last_message, feed_pending, dashboard,
      closed_after, is_running, current_coin, monitor_pc, monitor_wake, user_connects>>

Asleep(pc, wake) == [pc |-> pc, wake |-> wake]

\* check_connection_status, lines 119-131 and 146-151, in the thread m
MonitorCheckOf(m) ==
    /\ monitors[m].pc = "interval"
    /\ now >= monitors[m].wake
    /\ LET stale == /\ connection_status.connected
                    /\ HeartbeatMissed
           connected == connection_status.connected /\ ~stale
       IN  IF ~connected /\ current_coin # "None"
           THEN IF connection_status.reconnect_count < MAX_RECONNECT_ATTEMPTS
                THEN /\ current_connection' = CloseEffect.connection
                     /\ current_loop' = CloseEffect.loop
                     /\ teardowns' = CloseEffect.teardowns
                     /\ connection_status' = [connection_status EXCEPT !.connected = FALSE]
                     /\ monitors' = [monitors EXCEPT ![m] =
                                        Asleep("reconnect_delay", now + Seconds(RECONNECT_DELAY))]
                ELSE /\ connection_status' = [connection_status EXCEPT !.connected = FALSE]
                     /\ monitors' = [monitors EXCEPT ![m] =
                                        Asleep("cooldown", now + Seconds(RECONNECT_INTERVAL * 2))]
                     /\ UNCHANGED <<current_connection, current_loop, teardowns>>
           ELSE /\ connection_status' = [connection_status EXCEPT !.connected = connected]
                /\ monitors' = [monitors EXCEPT ![m] =
                                   Asleep("interval", now + Seconds(RECONNECT_INTERVAL))]
                /\ UNCHANGED <<current_connection, current_loop, teardowns>>
    /\ UNCHANGED <<monitorsUnchanged, ws_threads, subscriptions, failed_attempts>>

\* check_connection_status, lines 134-151, in the thread m
MonitorReconnectOf(m) ==
    /\ monitors[m].pc = "reconnect_delay"
    /\ now >= monitors[m].wake
    /\ ws_threads' = Append(ws_threads, [coin |-> current_coin, by |-> "monitor"])
    /\ connection_status' = [connection_status EXCEPT !.reconnect_count = @ + 1]
    /\ monitors' = [monitors EXCEPT ![m] = Asleep("interval", now + Seconds(RECONNECT_INTERVAL))]
    /\ UNCHANGED <<monitorsUnchanged, current_connection, current_loop, teardowns,
                   subscriptions, failed_attempts>>

\* check_connection_status, lines 148-151, in the thread m
MonitorCooldownEndOf(m) ==
    /\ monitors[m].pc = "cooldown"
    /\ now >= monitors[m].wake
    /\ connection_status' = [connection_status EXCEPT !.reconnect_count = 0]
    /\ failed_attempts' = 0
    /\ monitors' = [monitors EXCEPT ![m] = Asleep("interval", now + Seconds(RECONNECT_INTERVAL))]
    /\ UNCHANGED <<monitorsUnchanged, current_connection, current_loop, teardowns,
                   ws_threads, subscriptions>>

MonitorsCheck == \E m \in DOMAIN monitors : MonitorCheckOf(m)
MonitorsReconnect == \E m \in DOMAIN monitors : MonitorReconnectOf(m)
MonitorsCooldownEnd == \E m \in DOMAIN monitors : MonitorCooldownEndOf(m)

\* time passes: started threads have run and no monitor is overdue
MonitorsTick ==
    /\ now < MaxMonitorTicks * ClockStep
    /\ ws_threads = << >>
    /\ \A m \in DOMAIN monitors : now < monitors[m].wake
    /\ now' = now + ClockStep
    /\ UNCHANGED <<dataVars, connection_status, connVars>>

NextMonitors ==
    \/ PressConnect
    \/ start_websocket_enter
    \/ start_websocket_subscribe
    \/ start_websocket_finally
    \/ MonitorsCheck
    \/ MonitorsReconnect
    \/ MonitorsCooldownEnd
    \/ MonitorsTick

SpecMonitors == Init /\ [][NextMonitors]_vars

(***************************************************************************)
(* The windowed aggregation (data_processor.py).  A DataFrame is the       *)
(* sequence of its rows; the rows are the trade_info records.              *)
(***************************************************************************)
RECURSIVE SumTotal(_)
SumTotal(rows) == IF rows = << >> THEN 0 ELSE Head(rows).total + SumTotal(Tail(rows))

\* df[df['timestamp'] >= threshold]
RowsSince(rows, threshold) == SelectSeq(rows, LAMBDA r : r.timestamp >= threshold)

\* df[df['side'] == side]
RowsOfSide(rows, side) == SelectSeq(rows, LAMBDA r : r.side = side)

\* clean_historical_data(), lines 89-108, on the history hist at time t
clean_historical_data(hist, t) ==
    LET kept(coin) == RowsSince(hist[coin], t - Minutes(MAX_HISTORY_MINUTES))
    IN  [coin \in { c \in DOMAIN hist : kept(c) # << >> } |-> kept(coin)]

\* get_trade_data(coin), lines 191-193
get_trade_data(coin) ==
    IF coin \in DOMAIN trade_data_by_coin THEN trade_data_by_coin[coin] ELSE trade_data

\* sort_values('timestamp') of a frame whose rows up to the last are sorted:
\* on frames of this size the sort keeps rows of equal timestamp in order
RECURSIVE SortedInsert(_, _)
SortedInsert(rows, r) ==
    IF rows = << >> THEN <<r>>
    ELSE IF rows[Len(rows)].timestamp <= r.timestamp THEN Append(rows, r)
    ELSE Append(SortedInsert(SubSeq(rows, 1, Len(rows) - 1), r), rows[Len(rows)])

RECURSIVE SortByTimestamp(_)
SortByTimestamp(rows) ==
    IF rows = << >> THEN << >>
    ELSE SortedInsert(SortByTimestamp(SubSeq(rows, 1, Len(rows) - 1)), rows[Len(rows)])

MergeIntoHistoryAll(has_history, history, new_data) ==
    IF ~has_history THEN new_data
    ELSE IF new_data # << >> THEN SortByTimestamp(history \o new_data) ELSE history

\* process_trade_data, lines 176-188: the history of one coin after the new
\* data were merged into it; has_history is `coin in historical_data`
MergeIntoHistory(has_history, history, new_data) ==
    IF ~has_history THEN new_data
    ELSE LET existing_timestamps == { history[i].timestamp : i \in DOMAIN history }
             truly_new_data == SelectSeq(new_data,
                                         LAMBDA r : r.timestamp \notin existing_timestamps)
         IN  IF truly_new_data # << >>
             THEN SortByTimestamp(history \o truly_new_data)
             ELSE history

\* lines 209 and 215: part / whole * 100 if whole > 0 else 50, as the exact
\* fraction num / den
SentimentWithoutDefault(part, whole) == [num |-> part * 100, den |-> whole]

SentimentAsFraction(part, whole) ==
    IF whole > 0 THEN [num |-> part, den |-> whole] ELSE [num |-> 50, den |-> 1]

Sentiment(part, whole) ==
    IF whole > 0 THEN [num |-> part * 100, den |-> whole] ELSE [num |-> 50, den |-> 1]

\* lines 201-206
BuyVolume(rows) == SumTotal(RowsOfSide(rows, "B"))
SellVolume(rows) == SumTotal(RowsOfSide(rows, "A"))

\* lines 218-228: the pivot table, time_bin -> side -> summed total, with the
\* sides that occur as columns and 0 where a bin has no row of a side
TimeBin(timestamp) == (timestamp \div 1000) * 1000

VolumeByTime(rows) ==
    LET bins == { TimeBin(rows[i].timestamp) : i \in DOMAIN rows }
        sides == { rows[i].side : i \in DOMAIN rows }
    IN  [bin \in bins |->
            [side \in sides |->
                SumTotal(SelectSeq(rows, LAMBDA r : TimeBin(r.timestamp) = bin
                                                     /\ r.side = side))]]

\* lines 190-230: the result computed from the coin's history at time t
ResultOf(history, time_interval, t) ==
    LET interval_df == RowsSince(history, t - Minutes(time_interval))
        buy_volume == BuyVolume(interval_df)
        sell_volume == SellVolume(interval_df)
        buy_count == Len(RowsOfSide(interval_df, "B"))
        sell_count == Len(RowsOfSide(interval_df, "A"))
    IN  IF Len(interval_df) < MIN_RECORDS_THRESHOLD THEN NoData
        ELSE [kind            |-> "data",
              interval_df     |-> interval_df,
              volume_by_time  |-> VolumeByTime(interval_df),
              sentiment       |-> Sentiment(buy_volume, buy_volume + sell_volume),
              count_sentiment |-> Sentiment(buy_count, buy_count + sell_count)]

CacheHitAtAnyAge(key) == key \in DOMAIN process_cache

\* time_aware_cache, lines 60-66: is the call answered from the cache?
CacheHit(key) ==
    /\ key \in DOMAIN process_cache
    /\ now - process_cache[key].timestamp < Seconds(CACHE_SECONDS)

\* time_aware_cache, lines 70-78: store the result, drop the expired entries
CacheStore(cache, key, result) ==
    LET stored == DictSet(cache, key, [result |-> result, timestamp |-> now])
    IN  [k \in { k \in DOMAIN stored : ~(now - stored[k].timestamp > Seconds(CACHE_SECONDS)) }
            |-> stored[k]]

\* process_trade_data(time_interval, coin) behind its cache
process_trade_data(time_interval, coin) ==
    LET key == <<time_interval, coin>>
        cleaned == clean_historical_data(historical_data, now)
        new_data == get_trade_data(coin)
        history == MergeIntoHistory(coin \in DOMAIN cleaned,
                                    IF coin \in DOMAIN cleaned THEN cleaned[coin] ELSE << >>,
                                    new_data)
        result == IF new_data = << >> THEN NoData ELSE ResultOf(history, time_interval, now)
    IN  /\ queries < MaxQueries
        /\ queries' = queries + 1
        /\ IF CacheHit(key)
           THEN /\ last_result' = [time_interval |-> time_interval, coin |-> coin, at |-> now,
                                   fresh |-> FALSE, result |-> process_cache[key].result]
                /\ UNCHANGED <<historical_data, process_cache>>
           ELSE /\ last_result' = [time_interval |-> time_interval, coin |-> coin, at |-> now,
                                   fresh |-> TRUE, result |-> result]
                /\ historical_data' = IF new_data = << >> THEN cleaned
                                      ELSE DictSet(cleaned, coin, history)
                /\ process_cache' = CacheStore(process_cache, key, result)
        /\ UNCHANGED <<now, trade_data, trade_data_by_coin, cumulative_stats_queue,
                       connection_status, cumulative_user_stats, stats_file,
                       maintenance_alive, ingested, queue_drops,
                       saved_snapshot, started_at, connVars, close_calls,
                       consumer_pending, last_message, feed_pending, closed_after,
                       is_running, monitors>>

\* the dashboard's default interval (minutes), and two of its coins: one the
\* feeds below send records for and one they send none for
QueryIntervals == {5}
QueryCoins == {"BTC", "ETH"}

Query == \E time_interval \in QueryIntervals, coin \in QueryCoins :
            /\ process_trade_data(time_interval, coin)
            /\ UNCHANGED <<dashboard, last_read>>

\* the tuple process_trade_data returns, lines 168, 173, 197 and 232: four
\* values, each None or each a value of the result
ReturnedTuple(result) ==
    IF result = NoData
    THEN <<NoData, NoData, NoData, NoData>>
    ELSE <<[kind |-> "frame", rows |-> result.interval_df],
           [kind |-> "table", bins |-> result.volume_by_time],
           [kind |-> "number", value |-> result.sentiment],
           [kind |-> "number", value |-> result.count_sentiment]>>

\* streamlit_ui.py lines 207-212: `data, volume_by_time, sentiment = ...` binds
\* three names; a tuple of another length raises ValueError, and the except
\* clause sets data to None
UnpackThree(returned) ==
    IF Len(returned) = 3
    THEN [raised |-> FALSE, data |-> returned[1]]
    ELSE [raised |-> TRUE, data |-> NoData]

\* update_dashboard, lines 205-283 of streamlit_ui.py, for the interval and
\* the coin of the session: the page shows the warning of insufficient data
\* and returns, or goes on to present the result and to read the ledger
update_dashboard ==
    \E time_interval \in QueryIntervals, coin \in QueryCoins :
        /\ process_trade_data(time_interval, coin)
        /\ LET unpacked == UnpackThree(ReturnedTuple(last_result'.result))
           IN  IF unpacked.data = NoData
               THEN /\ dashboard' = [shown |-> "insufficient", raised |-> unpacked.raised]
                    /\ UNCHANGED last_read
               ELSE /\ dashboard' = [shown |-> "presented", raised |-> unpacked.raised]
                    /\ last_read' = get_cumulative_user_statistics(cumulative_user_stats, coin)

\* the records the aggregation specification's feed sends, stamped with the
\* time at which they arrive
AggTrades ==
    { RawTrade("BTC", "B", now, "1", "1", <<"u1", "u2">>),
      RawTrade("BTC", "A", now, "1", "2", <<"u2", "u1">>) }

FeedAgg ==
    \E message \in { [wellformed |-> TRUE, data |-> d] : d \in SeqsUpTo(AggTrades, 1) } :
        /\ Len(ingested) + AcceptedCount(message) <= MaxAggTrades
        /\ AcceptedCount(message) > 0
        /\ on_message(message)
        /\ UNCHANGED <<connVars, aggVars, auxVars, now, cumulative_user_stats, stats_file, maintenance_alive,
                       saved_snapshot, started_at>>

\* the instants (in seconds) after the start at which the aggregation
\* specification looks at the program: beyond the cache's lifetime, and beyond
\* the retention of what arrived at the start (what arrived at the first
\* instant is then retained and outside the window)
ClockInstants == {3, 1802}

AdvanceClock ==
    /\ \E t \in ClockInstants : Seconds(t) > now /\ now' = Seconds(t)
    /\ UNCHANGED <<trade_data, trade_data_by_coin, cumulative_stats_queue, connection_status,
                   cumulative_user_stats, stats_file, maintenance_alive, ingested,
          queue_drops, saved_snapshot,
                   started_at, connVars, aggVars, auxVars>>

NextAgg == FeedAgg \/ Query \/ AdvanceClock

SpecAgg == Init /\ [][NextAgg]_vars

\* the records of the window specification's feed, which sends one message of
\* several records: buys, sells, and sells of size 0
WindowTrades ==
    AggTrades \cup { RawTrade("BTC", "A", now, "2", "0", <<"u1", "u2">>) }

FeedBurst ==
    /\ ingested = << >>
    /\ \E d \in SeqsUpTo(WindowTrades, MaxAggTrades) :
          /\ d # << >>
          /\ on_message([wellformed |-> TRUE, data |-> d])
    /\ UNCHANGED <<connVars, aggVars, auxVars, now, cumulative_user_stats, stats_file, maintenance_alive,
                   saved_snapshot, started_at>>

NextWindow == FeedBurst \/ Query

SpecWindow == Init /\ [][NextWindow]_vars

\* the records of the scenario specification's feed, which sends one message
\* of several records: buys of notional 2 and sells of notional 1
ScenarioTrades ==
    { RawTrade("BTC", "B", now, "2", "1", <<"u1", "u2">>),
      RawTrade("BTC", "A", now, "1", "1", <<"u2", "u1">>) }

FeedScenario ==
    /\ ingested = << >>
    /\ \E d \in SeqsUpTo(ScenarioTrades, MaxAggTrades) :
          /\ d # << >>
          /\ on_message([wellformed |-> TRUE, data |-> d])
    /\ UNCHANGED <<connVars, aggVars, auxVars, now, cumulative_user_stats, stats_file, maintenance_alive,
                   saved_snapshot, started_at>>

NextScenario == FeedScenario \/ Query

SpecScenario == Init /\ [][NextScenario]_vars

\* the dashboard over the records of the scenario feed
NextDashboard == FeedScenario \/ update_dashboard

SpecDashboard == Init /\ [][NextDashboard]_vars

(***************************************************************************)
(* Claims about the ledger, checked under SpecLedger.                      *)
(***************************************************************************)
\* every entry of ledger a is in ledger b with counters at least as large
LedgerNotDecreased(a, b) ==
    \A coin \in DOMAIN a :
        /\ coin \in DOMAIN b
        /\ \A user \in DOMAIN a[coin] :
              /\ user \in DOMAIN b[coin]
              /\ b[coin][user].buy_count >= a[coin][user].buy_count
              /\ b[coin][user].sell_count >= a[coin][user].sell_count
              /\ b[coin][user].buy_volume >= a[coin][user].buy_volume
              /\ b[coin][user].sell_volume >= a[coin][user].sell_volume

\* C6: between evictions the ledger is additive: no step of the running
\* process other than an eviction (clean_cumulative_stats) lowers a counter of
\* any (instrument, user) or removes an existing entry.
C6_LedgerAdditive ==
    [][(~CleanStats /\ ~StartProcess)
         => LedgerNotDecreased(cumulative_user_stats, cumulative_user_stats')]_vars

\* C6 witness: a user with buys and sells on one instrument, two further users,
\* and a second instrument, all built by ledger updates alone
C6_Witness ==
    /\ started_at = 0
    /\ stats_file = NoFile
    /\ DOMAIN cumulative_user_stats = {"BTC", "ETH"}
    /\ Cardinality(DOMAIN cumulative_user_stats["BTC"]) = 3
    /\ \E user \in DOMAIN cumulative_user_stats["BTC"] :
          /\ cumulative_user_stats["BTC"][user].buy_count = 1
          /\ cumulative_user_stats["BTC"][user].buy_volume = 2

\* the users the ledger would know from the trades consumed so far
UsersConsumed(coin) ==
    { IF ingested[i].side = "B" THEN ingested[i].buyer ELSE ingested[i].seller :
        i \in { j \in 1..(Len(ingested) - Len(cumulative_stats_queue)) :
                  ingested[j].coin = coin } }

\* user a does not rank below user b by (total_volume, total_count)
RanksAtLeast(a, b) ==
    \/ total_volume(a) > total_volume(b)
    \/ total_volume(a) = total_volume(b) /\ total_count(a) >= total_count(b)

\* C7: a clean leaves every instrument with at most N users untouched, and
\* leaves an instrument that had more than N users with exactly N of them,
\* counters unchanged, none ranking below a deleted user by
\* (total_volume, total_count).
C7_EvictionKeepsTopN ==
    [][CleanStats =>
         /\ DOMAIN cumulative_user_stats' = DOMAIN cumulative_user_stats
         /\ \A coin \in DOMAIN cumulative_user_stats :
               LET before == cumulative_user_stats[coin]
                   after  == cumulative_user_stats'[coin]
               IN  IF Cardinality(DOMAIN before) <= MAX_USERS_PER_COIN
                   THEN after = before
                   ELSE /\ DOMAIN after \subseteq DOMAIN before
                        /\ Cardinality(DOMAIN after) = MAX_USERS_PER_COIN
                        /\ \A kept \in DOMAIN after :
                              /\ after[kept] = before[kept]
                              /\ \A gone \in DOMAIN before \ DOMAIN after :
                                    RanksAtLeast(before[kept], before[gone])]_vars

\* C7 witness: after an eviction on BTC (a user the consumed trades put in the
\* ledger is gone, with no restart in between) while ETH, under the cap, kept
\* its user
C7_Witness ==
    /\ started_at = 0
    /\ DOMAIN cumulative_user_stats = {"BTC", "ETH"}
    /\ Cardinality(UsersConsumed("BTC")) > MAX_USERS_PER_COIN
    /\ Cardinality(DOMAIN cumulative_user_stats["BTC"]) = MAX_USERS_PER_COIN
    /\ DOMAIN cumulative_user_stats["ETH"] = UsersConsumed("ETH")

\* C8: a process start that finds a completely written STATS_FILE loads, into
\* the empty ledger, exactly the ledger that save_cumulative_stats wrote: the
\* same instruments, the same users, equal counts and volumes.
C8_SaveLoadRoundTrip ==
    [][(StartProcess /\ stats_file.state = "complete")
         => cumulative_user_stats' = saved_snapshot]_vars

\* C8 witness: just after a restart, the ledger loaded from the file holds two
\* instruments and a user with a two-unit volume
C8_Witness ==
    /\ started_at > 0
    /\ started_at = Len(ingested)
    /\ cumulative_stats_queue = << >>
    /\ stats_file.state = "complete"
    /\ cumulative_user_stats = saved_snapshot
    /\ DOMAIN cumulative_user_stats = {"BTC", "ETH"}
    /\ \E user \in DOMAIN cumulative_user_stats["BTC"] :
          cumulative_user_stats["BTC"][user].buy_volume = 2

(***************************************************************************)
(* Claims about ingestion, checked under Spec and SpecStore.                            *)
(***************************************************************************)
\* the trades on_message has ingested since the process started, in order
IngestedSinceStart == SubSeq(ingested, started_at + 1, Len(ingested))

IngestedOfCoin(coin) ==
    LET OfCoin(info) == info.coin = coin IN SelectSeq(IngestedSinceStart, OfCoin)

\* C2: every per-instrument recent-trade store holds at most its capacity, and
\* holds exactly the most recently ingested trades of its instrument, in
\* ingestion order (the oldest is the one evicted); an instrument has a store
\* as soon as one of its trades was ingested.
C2_StoreHoldsMostRecent ==
    /\ \A coin \in DOMAIN trade_data_by_coin :
          /\ Len(trade_data_by_coin[coin]) <= DEQUE_MAXLEN
          /\ trade_data_by_coin[coin] = LastN(IngestedOfCoin(coin), DEQUE_MAXLEN)
    /\ \A i \in DOMAIN IngestedSinceStart :
          IngestedSinceStart[i].coin \in DOMAIN trade_data_by_coin

\* C2 witness: an instrument's store is full and has evicted at least two
\* trades, while another instrument's store is not full
C2_Witness ==
    \E c1, c2 \in DOMAIN trade_data_by_coin :
        /\ Len(IngestedOfCoin(c1)) >= DEQUE_MAXLEN + 2
        /\ Len(trade_data_by_coin[c1]) = DEQUE_MAXLEN
        /\ Len(trade_data_by_coin[c2]) < DEQUE_MAXLEN
        /\ \E i \in 1..(DEQUE_MAXLEN - 1) :
              trade_data_by_coin[c1][i] # trade_data_by_coin[c1][i + 1]

\* C3: the stats queue never holds more than its capacity, and a full queue
\* costs a trade its ledger update only: the global store holds the most
\* recent ingested trades whether or not their push succeeded, and the trades
\* in the queue are ingested trades, at most as many as were not dropped.
C3_QueueBoundedStoreUnaffected ==
    /\ Len(cumulative_stats_queue) <= QUEUE_SIZE
    /\ trade_data = LastN(IngestedSinceStart, DEQUE_MAXLEN)
    /\ queue_drops <= Len(IngestedSinceStart)
    /\ Len(cumulative_stats_queue) <= Len(IngestedSinceStart) - queue_drops
    /\ \A i \in DOMAIN cumulative_stats_queue :
          \E j \in DOMAIN IngestedSinceStart :
              cumulative_stats_queue[i] = IngestedSinceStart[j]

\* C3 witness: the scenario of the specification: five trades arrived with no
\* consumer progress, the queue (capacity 2) holds the first two, three were
\* dropped from it, and all five are in the store
C3_Witness ==
    /\ Len(IngestedSinceStart) = 5
    /\ cumulative_user_stats = << >>
    /\ cumulative_stats_queue = SubSeq(IngestedSinceStart, 1, 2)
    /\ queue_drops = 3
    /\ trade_data = IngestedSinceStart
(***************************************************************************)
(* Claims about the connection manager, checked under SpecConn.            *)
(***************************************************************************)

\* C4: the monitor gives up (enters its cooldown instead of reconnecting)
\* after exactly MAX_RECONNECT_ATTEMPTS consecutive failed reconnect
\* attempts: whenever it is in the cooldown, the attempts that failed in a
\* row since the last successful subscribe number MAX_RECONNECT_ATTEMPTS.
C4_CooldownAfterFiveConsecutiveFailures ==
    monitor_pc = "cooldown" => failed_attempts = MAX_RECONNECT_ATTEMPTS

\* C5: whenever the connection becomes connected, reconnect_count is 0 and
\* last_message_time is the time of the connect.
C5_ConnectResetsCounter ==
    [][(~connection_status.connected /\ connection_status'.connected)
          => /\ connection_status'.reconnect_count = 0
             /\ connection_status'.last_message_time = now']_vars

(***************************************************************************)
(* Claims about the windowed aggregation, checked under SpecAgg (C1, C9)   *)
(* and SpecWindow (C10).                                                   *)
(***************************************************************************)
\* the events ingested for the coin whose timestamp lies in the window that
\* ends now
InWindow(coin, time_interval) ==
    SelectSeq(IngestedSinceStart,
              LAMBDA r : r.coin = coin /\ r.timestamp >= now - Minutes(time_interval))

\* C1: when process_trade_data computes a result for a coin that has ingested
\* events, buy_volume + sell_volume equals the sum of the notional of all
\* ingested events of the coin whose timestamp lies in the window: none is
\* lost and none is counted twice.
C1_VolumeCountsEachInWindowEventOnce ==
    [][(/\ queries' = queries + 1
        /\ last_result'.fresh
        /\ last_result'.result.kind = "data"
        /\ last_result'.coin \in DOMAIN trade_data_by_coin)
          => BuyVolume(last_result'.result.interval_df)
               + SellVolume(last_result'.result.interval_df)
             = SumTotal(InWindow(last_result'.coin, last_result'.time_interval))]_vars

C10_SentimentInRangeDefaultAtZeroVolume ==
    last_result.result.kind = "data" =>
        LET result == last_result.result
            buy_volume == BuyVolume(result.interval_df)
            window_volume == buy_volume + SellVolume(result.interval_df)
            sentiment == result.sentiment
            count_sentiment == result.count_sentiment
        IN  /\ sentiment.den > 0
            /\ 0 <= sentiment.num /\ sentiment.num <= 100 * sentiment.den
            /\ count_sentiment.den > 0
            /\ 0 <= count_sentiment.num /\ count_sentiment.num <= 100 * count_sentiment.den
            /\ window_volume = 0 => sentiment.num = 50 * sentiment.den
            /\ window_volume # 0 => sentiment.num * window_volume = 100 * buy_volume * sentiment.den

\* a result over a window of at least MIN_RECORDS_THRESHOLD records, all of
\* notional 0, was returned
C10_Witness ==
    /\ last_result.result.kind = "data"
    /\ BuyVolume(last_result.result.interval_df)
         + SellVolume(last_result.result.interval_df) = 0

\* the summed notional (price * volume) of the rows of one side
RECURSIVE SideNotional(_, _)
SideNotional(rows, side) ==
    IF rows = << >> THEN 0
    ELSE (IF Head(rows).side = side THEN Head(rows).price * Head(rows).volume ELSE 0)
           + SideNotional(Tail(rows), side)

SideCount(rows, side) == Cardinality({ i \in DOMAIN rows : rows[i].side = side })

\* C11: over a window whose totals are not zero, the volume sentiment is
\* buy notional / (buy notional + sell notional) * 100 and the count
\* sentiment is buys / (buys + sells) * 100.
C11_SentimentsAreBuyShares ==
    last_result.result.kind = "data" =>
        LET result == last_result.result
            rows == result.interval_df
            buy_notional == SideNotional(rows, "B")
            sell_notional == SideNotional(rows, "A")
            buys == SideCount(rows, "B")
            sells == SideCount(rows, "A")
        IN  /\ buy_notional + sell_notional # 0
                 => result.sentiment.num * (buy_notional + sell_notional)
                       = 100 * buy_notional * result.sentiment.den
            /\ buys + sells # 0
                 => result.count_sentiment.num * (buys + sells)
                       = 100 * buys * result.count_sentiment.den

\* the scenario of the claim at one half of its size: 3 buys of notional 2 and
\* 2 sells of notional 1 gave 75 and 60
C11_Witness ==
    /\ last_result.result.kind = "data"
    /\ SideCount(last_result.result.interval_df, "B") = 3
    /\ SideCount(last_result.result.interval_df, "A") = 2
    /\ SideNotional(last_result.result.interval_df, "B") = 6
    /\ SideNotional(last_result.result.interval_df, "A") = 2
    /\ last_result.result.sentiment.num = 75 * last_result.result.sentiment.den
    /\ last_result.result.count_sentiment.num = 60 * last_result.result.count_sentiment.den

C14_CloseIsIdempotent ==
    [][close_websocket
          => /\ CloseEffect' = [connection |-> current_connection',
                                loop       |-> current_loop',
                                connected  |-> connection_status'.connected,
                                teardowns  |-> teardowns']
             /\ current_connection = "None"
                   => UNCHANGED <<current_connection, current_loop, connection_status,
                                  teardowns, subscriptions, ws_threads, monitor_pc,
                                  monitor_wake, current_coin>>]_vars

\* close_websocket() was called twice after a subscription was made, the
\* first call stopped a running loop
C14_Witness ==
    /\ close_calls = 2
    /\ user_connects = 1
    /\ ws_threads = << >>
    /\ subscriptions # {}
    /\ current_connection = "None"
    /\ current_loop = "not_running"
    /\ teardowns = 1

\* C18: once close_websocket() has been called (the shutdown request), the
\* monitor thread leaves its loop and the maintenance worker leaves its loop.
C18_LoopsStopAfterShutdown ==
    (close_calls > 0) ~> (monitor_pc = "off" /\ ~maintenance_alive)

\* the records of a message that have every required field and numeric px, sz
ValidRecords(message) ==
    SelectSeq(message.data,
              LAMBDA trade : /\ {"side", "time", "px", "sz", "coin"} \subseteq DOMAIN trade
                             /\ trade.px \in {"0", "1", "2"}
                             /\ trade.sz \in {"0", "1", "2"})

\* C15: a message changes the stores, the queue and the log by its valid
\* records only, each of them in order, whatever malformed records stand
\* before, between or after them; and on_message is called again afterwards.
C15_MalformedRecordsAreSkipped ==
    [][FeedMalformed =>
          LET valid == ValidRecords(last_message')
              infos == [i \in 1..Len(valid) |-> TradeInfo(valid[i])]
              coins == DOMAIN trade_data_by_coin \cup { infos[i].coin : i \in DOMAIN infos }
              room  == QUEUE_SIZE - Len(cumulative_stats_queue)
          IN  /\ ingested' = ingested \o infos
              /\ trade_data' = LastN(trade_data \o infos, DEQUE_MAXLEN)
              /\ trade_data_by_coin' =
                    [c \in coins |->
                        LastN((IF c \in DOMAIN trade_data_by_coin
                               THEN trade_data_by_coin[c] ELSE << >>)
                                 \o SelectSeq(infos, LAMBDA info : info.coin = c),
                              DEQUE_MAXLEN)]
              /\ cumulative_stats_queue' =
                    cumulative_stats_queue \o SubSeq(infos, 1, Min(Len(infos), room))]_vars

\* a message with a malformed record before a valid one was handled, after an
\* earlier message, and the valid record is the newest trade of the store
C15_Witness ==
    /\ Len(last_message.data) = 2
    /\ ~TradeAccepted(last_message.data[1])
    /\ TradeAccepted(last_message.data[2])
    /\ Len(ingested) >= 2
    /\ trade_data # << >>
    /\ trade_data[Len(trade_data)] = TradeInfo(last_message.data[2])

\* C16: a frame returned by get_cumulative_user_statistics never shows a
\* trade's count without its volume (every trade of the feed has a non-zero
\* notional, so a user with a counted buy has a buy volume, and so for sells).
C16_ReadShowsNoHalfAppliedTrade ==
    \A user \in DOMAIN last_read.rows :
        /\ last_read.rows[user].buy_count > 0 => last_read.rows[user].buy_volume > 0
        /\ last_read.rows[user].sell_count > 0 => last_read.rows[user].sell_volume > 0

\* C19: the frame returned is a copy.  Overwriting one of its rows leaves the
\* ledger as it was, a later update of the ledger leaves the rows its holder
\* reads as they were, and the frame of a coin without entries has no rows.
C19_ResultIsACopy ==
    [][/\ MutateResult => cumulative_user_stats' = cumulative_user_stats
       /\ (ConsumeCount \/ ConsumeVolume) => RowsSeen(last_read)' = RowsSeen(last_read)
       /\ \A coin \in ReadCoins :
             (/\ ReadStats
              /\ last_read'.coin = coin
              /\ coin \notin DOMAIN cumulative_user_stats \/ cumulative_user_stats[coin] = << >>)
                => last_read'.rows = << >>]_vars

\* a frame of BTC rows was returned, one of its rows was overwritten, and the
\* ledger has been updated since: the frame and the ledger differ in every row
C19_Witness ==
    /\ last_read.coin = "BTC"
    /\ Cardinality(DOMAIN last_read.rows) = 2
    /\ consumer_pending = NoPending
    /\ "BTC" \in DOMAIN cumulative_user_stats
    /\ DOMAIN cumulative_user_stats["BTC"] = DOMAIN last_read.rows
    /\ \E user \in DOMAIN last_read.rows : last_read.rows[user] = ClearedRow(user)
    /\ \A user \in DOMAIN last_read.rows :
          /\ total_count(cumulative_user_stats["BTC"][user]) > 0
          /\ last_read.rows[user]
                # get_cumulative_user_statistics(cumulative_user_stats, "BTC").rows[user]

\* C17: STATS_FILE is written atomically: it never holds a partly written
\* snapshot.
C17_FileIsNeverPartlyWritten == stats_file.state # "partial"

\* C20: a save that fails leaves the ledger and the queue as they were and
\* the maintenance worker in its loop, so that the worker's next save can
\* write the whole snapshot.
C20_FailedSaveIsContained ==
    /\ [](maintenance_alive)
    /\ [](stats_file.state = "partial"
            => ENABLED (SaveStats /\ stats_file'.state = "complete"))
    /\ [][(SaveStats /\ SaveFailed(stats_file', cumulative_user_stats))
            => /\ cumulative_user_stats' = cumulative_user_stats
               /\ cumulative_stats_queue' = cumulative_stats_queue
               /\ maintenance_alive']_vars

\* a save has failed part-way while the ledger held entries and the queue a
\* trade; the ledger, the queue and the worker are still there
C20_Witness ==
    /\ stats_file.state = "partial"
    /\ cumulative_user_stats # << >>
    /\ cumulative_stats_queue # << >>
    /\ maintenance_alive

\* C21: a health check of a connected connection whose last message is more
\* than the heartbeat interval (30 s) old sets connected to false; a health
\* check of a connected connection with a younger last message leaves it
\* connected.
C21_SilentConnectionGoesStale ==
    [][(MonitorCheck /\ connection_status.connected)
          => IF now - connection_status.last_message_time > 30 * 1000
             THEN ~connection_status'.connected
             ELSE connection_status'.connected]_vars

\* the monitor's first reconnect of a connection that was made without an
\* error and then stayed silent for more than 30 s
C21_Witness ==
    /\ monitor_pc = "reconnect_delay"
    /\ connection_status.reconnect_count = 0
    /\ connection_status.last_error = "None"
    /\ ~connection_status.connected
    /\ subscriptions # {}
    /\ user_connects = 1
    /\ now - connection_status.last_message_time > 30 * 1000

\* C22: the ledger never holds an entry for the "unknown" sentinel: a trade
\* whose buyer (side B) or seller (side A) is unknown changes no entry.
C22_NoLedgerEntryForUnknown ==
    \A coin \in DOMAIN cumulative_user_stats :
        "unknown" \notin DOMAIN cumulative_user_stats[coin]

\* C23: when a computation of process_trade_data returns, no instrument's
\* history holds a record older than the maximum retention (30 minutes).
C23_HistoryWithinRetention ==
    [][(queries' = queries + 1 /\ last_result'.fresh)
          => \A coin \in DOMAIN historical_data' :
                \A i \in DOMAIN historical_data'[coin] :
                    historical_data'[coin][i].timestamp >= now' - 30 * 60 * 1000]_vars

\* the number of rows with timestamp t
RowsAt(rows, t) == Cardinality({ i \in DOMAIN rows : rows[i].timestamp = t })

\* the rows of the coin's history that the cleaning at the start of a
\* computation keeps
RetainedHistory(coin) ==
    IF coin \in DOMAIN historical_data
    THEN SelectSeq(historical_data[coin],
                   LAMBDA r : r.timestamp >= now - 30 * 60 * 1000)
    ELSE << >>

\* C24: a computation of process_trade_data over a coin that has a history
\* adds no record whose timestamp the history already holds, and when every
\* record of the recent-trade store has such a timestamp the history stays as
\* it was.
C24_MergeDeduplicatesByTimestamp ==
    [][(queries' = queries + 1 /\ last_result'.fresh
            /\ RetainedHistory(last_result'.coin) # << >> /\ trade_data # << >>)
          => LET coin == last_result'.coin
                 history == RetainedHistory(coin)
                 store == IF coin \in DOMAIN trade_data_by_coin
                          THEN trade_data_by_coin[coin] ELSE trade_data
             IN  /\ \A i \in DOMAIN history :
                       RowsAt(historical_data'[coin], history[i].timestamp)
                          = RowsAt(history, history[i].timestamp)
                 /\ (\A j \in DOMAIN store :
                        \E i \in DOMAIN history : history[i].timestamp = store[j].timestamp)
                       => historical_data'[coin] = history]_vars

\* the second computation for BTC found a history and left it shorter than
\* the store: a record of the store was not added because of its timestamp
C24_Witness ==
    /\ queries = 2
    /\ last_result.fresh
    /\ last_result.coin = "BTC"
    /\ "BTC" \in DOMAIN historical_data
    /\ "BTC" \in DOMAIN trade_data_by_coin
    /\ Len(historical_data["BTC"]) >= 1
    /\ Len(historical_data["BTC"]) < Len(trade_data_by_coin["BTC"])

\* C25: a call of process_trade_data whose (interval, coin) was computed less
\* than 2 s ago returns that computation's result and leaves the history
\* alone, whatever was ingested since; a call whose arguments were not
\* computed before, or more than 2 s ago, computes.
C25_CacheAnswersWithinTTL ==
    [][(queries' = queries + 1)
          => LET key == <<last_result'.time_interval, last_result'.coin>>
             IN  /\ (key \in DOMAIN process_cache
                        /\ now - process_cache[key].timestamp < 2 * 1000)
                       => /\ ~last_result'.fresh
                          /\ last_result'.result = process_cache[key].result
                          /\ historical_data' = historical_data
                          /\ process_cache' = process_cache
                 /\ (key \notin DOMAIN process_cache
                        \/ now - process_cache[key].timestamp > 2 * 1000)
                       => /\ last_result'.fresh
                          /\ key \in DOMAIN process_cache'
                          /\ process_cache'[key].timestamp = now]_vars

\* a call for BTC was answered from the cache although a trade had arrived
\* since the cached computation: the store holds more rows than the history
C25_Witness ==
    /\ ~last_result.fresh
    /\ last_result.coin = "BTC"
    /\ last_result.result.kind = "data"
    /\ "BTC" \in DOMAIN historical_data
    /\ Len(trade_data_by_coin["BTC"]) > Len(historical_data["BTC"])
    /\ Len(last_result.result.interval_df) = Len(historical_data["BTC"])

\* the elements of a sequence
Rows(seq) == { seq[i] : i \in DOMAIN seq }

\* the party of a trade that the ledger counts the trade for, and the number
\* of trades the ledger has counted for a user of a coin
CountedParty(info) == IF info.side = "B" THEN info.buyer ELSE info.seller

CountedFor(stats, coin, user) ==
    IF coin \in DOMAIN stats /\ user \in DOMAIN stats[coin]
    THEN stats[coin][user].buy_count + stats[coin][user].sell_count
    ELSE 0

RECURSIVE CountedIn(_, _)
CountedIn(users, left) ==
    IF left = {} THEN 0
    ELSE LET user == CHOOSE u \in left : TRUE
         IN  users[user].buy_count + users[user].sell_count + CountedIn(users, left \ {user})

\* the number of trades of a coin the ledger has counted
CountedOfCoin(coin) ==
    IF coin \in DOMAIN cumulative_user_stats
    THEN CountedIn(cumulative_user_stats[coin], DOMAIN cumulative_user_stats[coin])
    ELSE 0

\* C26: the ledger applies the queued trades in the order of their arrival:
\* a trade enters the queue behind every trade that waits there, and the
\* consumer applies the waiting trade that arrived first and only that one.
C26_LedgerAppliesInReceiveOrder ==
    [][/\ \A x \in Rows(cumulative_stats_queue) :
             \A y \in Rows(cumulative_stats_queue') \ Rows(cumulative_stats_queue) :
                 x.timestamp < y.timestamp
       /\ cumulative_user_stats' # cumulative_user_stats => ConsumeStats
       /\ ConsumeStats
             => \E x \in Rows(cumulative_stats_queue) :
                   /\ Rows(cumulative_stats_queue') = Rows(cumulative_stats_queue) \ {x}
                   /\ \A y \in Rows(cumulative_stats_queue') : x.timestamp < y.timestamp
                   /\ CountedFor(cumulative_user_stats', x.coin, CountedParty(x))
                         = CountedFor(cumulative_user_stats, x.coin, CountedParty(x)) + 1]_vars

\* five trades of both coins arrived, one was dropped at the full queue and
\* the others were applied
C26_Witness ==
    /\ Len(ingested) = 5
    /\ queue_drops = 1
    /\ feed_pending = NoPending
    /\ cumulative_stats_queue = << >>
    /\ CountedOfCoin("BTC") >= 1
    /\ CountedOfCoin("ETH") >= 1
    /\ CountedOfCoin("BTC") + CountedOfCoin("ETH") = 4

\* C27: a trade that waits in the queue is in the global store and in its
\* coin's store, and the ledger has counted no more trades of a coin than the
\* coin's store has received.
C27_LedgerNeverLeadsTheStores ==
    /\ \A q \in Rows(cumulative_stats_queue) :
          /\ q \in Rows(trade_data)
          /\ q.coin \in DOMAIN trade_data_by_coin
          /\ q \in Rows(trade_data_by_coin[q.coin])
    /\ \A coin \in DOMAIN cumulative_user_stats :
          /\ coin \in DOMAIN trade_data_by_coin
          /\ CountedOfCoin(coin) <= Len(trade_data_by_coin[coin])

\* the ledger lags: the stores hold a trade that is not queued yet and
\* trades that wait in the queue, after the ledger counted one
C27_Witness ==
    /\ feed_pending # NoPending
    /\ Len(cumulative_stats_queue) = 2
    /\ CountedOfCoin("BTC") + CountedOfCoin("ETH") = 1
    /\ Len(trade_data) = 4

C28_StoredSideAndNotional ==
    \A r \in Rows(trade_data) \cup Rows(cumulative_stats_queue)
               \cup UNION { Rows(trade_data_by_coin[coin]) : coin \in DOMAIN trade_data_by_coin } :
        /\ r.side \in {"B", "A"}
        /\ r.total = r.price * r.volume

\* C29: while the process runs, only the consumer changes the ledger.
C29_OnlyTheConsumerWritesTheLedger ==
    [][cumulative_user_stats' # cumulative_user_stats
          => (ConsumeStats \/ StartProcess)]_vars

\* C31: the dashboard shows the insufficient-data outcome only when
\* process_trade_data returned it, and presents every result it returned.
C31_DashboardShowsWhatWasReturned ==
    dashboard # NoPage =>
        /\ dashboard.shown = "insufficient" => last_result.result = NoData
        /\ last_result.result # NoData => dashboard.shown = "presented"

\* C32: the rows of a coin's history and the rows of a result returned for a
\* coin all carry that coin's symbol.
C32_AggregationIsolatedPerCoin ==
    /\ \A coin \in DOMAIN historical_data :
          \A r \in Rows(historical_data[coin]) : r.coin = coin
    /\ last_result.result.kind = "data" =>
          \A r \in Rows(last_result.result.interval_df) : r.coin = last_result.coin

\* close_websocket(), called on its own, closed a connection and no subscribe
\* request was made since
ClosedOnPurpose == closed_after = user_connects

\* C33: after close_websocket() was called on its own, and until the next
\* press of connect, the monitor starts no reconnect, and the connection does
\* not become connected except through a thread an earlier press started.
C33_ClosedStaysDisconnected ==
    [][ClosedOnPurpose /\ ClosedOnPurpose'
          => /\ ~(MonitorCheck /\ monitor_pc' = "reconnect_delay")
             /\ ~MonitorReconnect
             /\ (~connection_status.connected /\ connection_status'.connected)
                   => Head(ws_threads).by = "user"]_vars

\* C34: while a subscription is established (its client is the current
\* connection and its loop runs), connected goes from true to false only when
\* that subscription is closed (by close_websocket() or by the next
\* start_websocket) or found stale by the monitor.
C34_TeardownLeavesNewSubscriptionConnected ==
    [][(/\ current_connection # "None"
        /\ current_loop = "running"
        /\ connection_status.connected
        /\ ~connection_status'.connected)
          => (close_websocket \/ start_websocket \/ MonitorCheck)]_vars

\* C35: at most one check_connection_status thread is ever started.
C35_AtMostOneMonitor == Len(monitors) <= 1

\* C36: the reconnect counter stays within 0..MAX_RECONNECT_ATTEMPTS, and a
\* reconnect attempt started by a monitor raises it by exactly one.
C36_ReconnectCountBounded ==
    /\ [](connection_status.reconnect_count \in 0..MAX_RECONNECT_ATTEMPTS)
    /\ [][(MonitorReconnect \/ MonitorsReconnect)
             => connection_status'.reconnect_count
                  = connection_status.reconnect_count + 1]_vars

====
